---- MODULE Spec2Model ----
(***************************************************************************)
(* StoreSync: the campaign approval workflow (LocationCampaign FSM, the    *)
(* workflow endpoints of LocationCampaignViewSet, the admin bulk actions)  *)
(* and the periodic sweeps of apps/campaigns/tasks.py; the email batch     *)
(* sender, the content generator, the similarity index and the generation  *)
(* task of apps/campaigns/services and apps/campaigns/tasks.py.            *)
(***************************************************************************)
EXTENDS Integers, Sequences, FiniteSets, TLC

\* ------------------------------------------------------------------ bounds
MaxTime == 2
MaxSteps == 3
MaxCommentLen == 2

\* ------------------------------------------------------------------ domains
CampaignIds == {"c1", "c2"}
BrandIds == {"b1", "b2"}
Requests == {"r1", "r2"}
SweepWorkers == {"w1", "w2"}

\* DateTimeField(null=True): 0 stands for NULL, 1..MaxTime are instants
NoTime == 0
TaskIds == {"t1", "t2"}
Times == 1..MaxTime

Status == {"draft", "pending_review", "approved", "rejected",
           "scheduled", "active", "completed"}

Actions == {"submit", "approve", "reject", "schedule", "activate",
            "complete", "revise"}

ApiActions == {"submit", "approve", "reject", "schedule", "revise"}

AdminActions == {"submit", "approve", "reject"}

SweepKinds == {"activate", "complete"}

Users == {"admin", "brand_manager", "location_manager", "viewer"}

Role(u) == u

\* every non-admin fixture user is attached to the first brand
UserBrands(u) == IF u = "admin" THEN {} ELSE {"b1"}

\* characters of a comment: a space, a letter, and the null character "NUL"
Chars == {" ", "x", "NUL"}

RECURSIVE SeqsUpTo(_)
SeqsUpTo(n) ==
    IF n = 0 THEN {<< >>}
    ELSE LET shorter == SeqsUpTo(n - 1)
         IN  shorter \cup {Append(s, ch) : s \in {t \in shorter : Len(t) = n - 1}, ch \in Chars}

\* request bodies: the comments key may be absent
RequestData ==
    {[has_comments |-> FALSE, comments |-> << >>]}
      \cup {[has_comments |-> TRUE, comments |-> t] : t \in SeqsUpTo(MaxCommentLen)}

\* ------------------------------------------------------------------ state
VARIABLES
    campaigns,       \* committed location_campaigns rows, by id
    approval_steps,  \* committed approval_steps rows, in creation order
    now,             \* timezone.now()
    req,             \* the workflow request each API worker is serving
    sweep,           \* the periodic sweep run of each worker
    response,        \* the last HTTP response returned by a workflow endpoint
    stage,           \* history: how far along the review chain each campaign has been
    content,         \* generated_content / generated_html_email / content_embedding, by campaign
    recipients,      \* committed email_recipients rows, by id
    outbox,          \* the messages handed to the mail transport, in order
    mail,            \* the running add_recipients call or batch send
    gen,             \* the last call of a content generator or similarity service function
    task,            \* the generate_campaign_content task of each task id
    search,          \* the last find_similar_campaigns query with its corpus and result
    links,           \* the location and template foreign keys of each campaign row
    parked           \* the batch send of a second worker, while the first one's runs

vars == <<campaigns, approval_steps, now, req, sweep, response, stage,
          content, recipients, outbox, mail, gen, task, search, links, parked>>

\* what the workflow leaves alone
service_vars == <<content, recipients, outbox, mail, gen, task, search, links, parked>>

\* what the services leave alone
workflow_vars == <<campaigns, approval_steps, now, req, sweep, response, stage>>

Absent == [status |-> "absent", scheduled_start |-> NoTime, scheduled_end |-> NoTime]

\* the locations and campaign templates on file; l1, l3, tpl1 and tpl3 belong to
\* brand b1, l2 and tpl2 to brand b2
Locations == {"l1", "l2", "l3"}

CampaignTemplates == {"tpl1", "tpl2", "tpl3"}

\* location.brand_id / template.brand_id
BrandOf(x) == IF x \in {"l2", "tpl2"} THEN "b2" ELSE "b1"

\* the foreign keys each campaign id is created with unless the request names others
DefaultLinks ==
    [c \in CampaignIds |->
        IF c = "c1" THEN [location |-> "l1", template |-> "tpl1"]
        ELSE [location |-> "l2", template |-> "tpl2"]]

\* campaign.location.brand; the rows of a search corpus beyond CampaignIds are of brand b2
LocationBrand(c) == IF c \in CampaignIds THEN BrandOf(links[c].location) ELSE "b2"

Exists(c) == campaigns[c].status # "absent"

NoData == [has_comments |-> FALSE, comments |-> << >>]

\* the content fields of a campaign row: generated_content, generated_html_email
\* and content_embedding, all empty on a new campaign
NoContent == [generated_content |-> "", generated_html_email |-> "", content_embedding |-> "null"]

IdleReq == [pc |-> "idle", user |-> "none", campaign |-> "none", action |-> "none",
            data |-> NoData, obj |-> Absent, prev_status |-> "none", comments |-> << >>,
            content |-> NoContent]

IdleSweep == [pc |-> "idle", kind |-> "none",
              objs |-> [c \in CampaignIds |-> Absent],
              contents |-> [c \in CampaignIds |-> NoContent],
              queue |-> {}, eligible |-> {}, saved |-> {}, failed |-> {}, count |-> 0]

NoResponse == [code |-> 0, user |-> "none", campaign |-> "none", action |-> "none",
               data |-> NoData, was |-> "none"]

\* no add_recipients call and no batch send is running, none has run
IdleMail == [kind |-> "idle"]

\* no service function has been called
NoCall == [fn |-> "none"]

\* a task id that was never queued
NoTask == [state |-> "none"]

\* no similarity query has run
NoSearch == [ran |-> FALSE]

\* ------------------------------------------------------------------ FSM
\* mutant: revise also accepted from approved
TransitionSource_ReviseFromApproved(a) ==
    CASE a = "submit"   -> {"draft"}
      [] a = "approve"  -> {"pending_review"}
      [] a = "reject"   -> {"pending_review"}
      [] a = "schedule" -> {"approved"}
      [] a = "activate" -> {"scheduled"}
      [] a = "complete" -> {"active"}
      [] a = "revise"   -> {"draft", "rejected", "approved"}

\* mutant: schedule also accepted from pending_review
TransitionSource_ScheduleFromPending(a) ==
    CASE a = "submit"   -> {"draft"}
      [] a = "approve"  -> {"pending_review"}
      [] a = "reject"   -> {"pending_review"}
      [] a = "schedule" -> {"pending_review", "approved"}
      [] a = "activate" -> {"scheduled"}
      [] a = "complete" -> {"active"}
      [] a = "revise"   -> {"draft", "rejected"}

\* @transition(source=...) of each LocationCampaign method
TransitionSource(a) ==
    CASE a = "submit"   -> {"draft"}
      [] a = "approve"  -> {"pending_review"}
      [] a = "reject"   -> {"pending_review"}
      [] a = "schedule" -> {"approved"}
      [] a = "activate" -> {"scheduled"}
      [] a = "complete" -> {"active"}
      [] a = "revise"   -> {"draft", "rejected"}

\* @transition(target=...) of each LocationCampaign method
TransitionTarget(a) ==
    CASE a = "submit"   -> "pending_review"
      [] a = "approve"  -> "approved"
      [] a = "reject"   -> "rejected"
      [] a = "schedule" -> "scheduled"
      [] a = "activate" -> "active"
      [] a = "complete" -> "completed"
      [] a = "revise"   -> "draft"

can_proceed(s, a) == s \in TransitionSource(a)

\* calling the decorated method: the new status, or TransitionNotAllowed raised
ApplyTransition(s, a) ==
    IF can_proceed(s, a) THEN TransitionTarget(a) ELSE "TransitionNotAllowed"

\* ------------------------------------------------------------------ serializers
RECURSIVE LStrip(_)
LStrip(s) == IF s = << >> THEN s
             ELSE IF Head(s) = " " THEN LStrip(Tail(s)) ELSE s

RECURSIVE RStrip(_)
RStrip(s) == IF s = << >> THEN s
             ELSE IF s[Len(s)] = " " THEN RStrip(SubSeq(s, 1, Len(s) - 1)) ELSE s

\* str.strip(), which CharField(trim_whitespace=True) applies to its input
Strip(s) == LStrip(RStrip(s))

\* ProhibitNullCharactersValidator, which every CharField runs on the trimmed value
HasNullChar(s) == \E i \in 1..Len(s) : s[i] = "NUL"

\* CampaignActionSerializer: comments = CharField(required=False, allow_blank=True, default="")
CampaignActionSerializer(data) ==
    IF ~data.has_comments THEN [valid |-> TRUE, comments |-> << >>]
    ELSE IF HasNullChar(Strip(data.comments)) THEN [valid |-> FALSE, comments |-> << >>]
    ELSE [valid |-> TRUE, comments |-> Strip(data.comments)]

\* mutant: whitespace-only comments pass validation
CampaignRejectSerializer_NoBlankCheck(data) ==
    [valid |-> data.has_comments /\ data.comments # << >> /\ ~HasNullChar(data.comments),
     comments |-> Strip(data.comments)]

\* CampaignRejectSerializer: comments = CharField(required=True, min_length=1) + validate_comments
CampaignRejectSerializer(data) ==
    IF ~data.has_comments THEN [valid |-> FALSE, comments |-> << >>]
    ELSE IF Strip(data.comments) = << >> THEN [valid |-> FALSE, comments |-> << >>]
    ELSE IF Len(Strip(data.comments)) < 1 \/ HasNullChar(Strip(data.comments))
         THEN [valid |-> FALSE, comments |-> << >>]
    ELSE [valid |-> Strip(Strip(data.comments)) # << >>,
          comments |-> Strip(data.comments)]

\* the serializer each endpoint validates request.data with
ActionSerializer(a, data) ==
    IF a = "reject" THEN CampaignRejectSerializer(data) ELSE CampaignActionSerializer(data)

\* ------------------------------------------------------------------ permissions
\* HasBrandAccess.has_permission on a detail route: kwargs["pk"] is the campaign id
has_permission(u, pk) ==
    \/ Role(u) = "admin"
    \/ pk \in UserBrands(u)

\* get_queryset + get_object: the row must exist and be in one of the user's brands
InQueryset(u, c) ==
    /\ Exists(c)
    /\ \/ Role(u) = "admin"
       \/ LocationBrand(c) \in UserBrands(u)

\* HasBrandAccess.has_object_permission: a campaign has no brand attribute, so the
\* object itself is looked up among the user's brands
has_object_permission(u, c) ==
    \/ Role(u) = "admin"
    \/ c \in UserBrands(u)

\* the role check of approve and reject
RoleMayDecide(u) == Role(u) \in {"admin", "brand_manager"}

\* ------------------------------------------------------------------ workflow endpoints
\* ApprovalStep.Decision recorded by each endpoint
ActionDecision(a) ==
    CASE a = "submit"   -> "submitted"
      [] a = "approve"  -> "approved"
      [] a = "reject"   -> "rejected"
      [] a = "schedule" -> "approved"
      [] a = "revise"   -> "requested_changes"

\* the comments each endpoint hands to _create_approval_step
StepComments(a, validated) ==
    IF a = "schedule" THEN <<"Campaign scheduled">> ELSE validated

\* mutant: the check fails only when both dates are missing
DatesMissing_OnlyWhenBoth(obj) == obj.scheduled_start = NoTime /\ obj.scheduled_end = NoTime

\* schedule: "if not campaign.scheduled_start or not campaign.scheduled_end"
DatesMissing(obj) == obj.scheduled_start = NoTime \/ obj.scheduled_end = NoTime

\* status code of the checks an endpoint runs before it opens its transaction
ApiCheck(u, c, a, data) ==
    IF ~has_permission(u, c) THEN 403
    ELSE IF ~InQueryset(u, c) THEN 404
    ELSE IF ~has_object_permission(u, c) THEN 403
    ELSE IF a \in {"approve", "reject"} /\ ~RoleMayDecide(u) THEN 403
    ELSE IF ~can_proceed(campaigns[c].status, a) THEN 400
    ELSE IF a = "schedule" /\ DatesMissing(campaigns[c]) THEN 400
    ELSE IF a # "schedule" /\ ~ActionSerializer(a, data).valid THEN 400
    ELSE 200

\* serializer.validated_data["comments"]; schedule reads no request data
ValidatedComments(a, data) ==
    IF a = "schedule" THEN << >> ELSE ActionSerializer(a, data).comments

\* the status the endpoint saw, when it got as far as loading the campaign
LoadedStatus(u, c) ==
    IF has_permission(u, c) /\ InQueryset(u, c) THEN campaigns[c].status ELSE "none"

\* an endpoint returns an error response before any write
ApiRefuse(r, u, c, a, data) ==
    /\ req[r].pc = "idle"
    /\ ApiCheck(u, c, a, data) # 200
    /\ response' = [code |-> ApiCheck(u, c, a, data), user |-> u, campaign |-> c,
                    action |-> a, data |-> data, was |-> LoadedStatus(u, c)]
    /\ UNCHANGED <<campaigns, approval_steps, now, req, sweep, stage, service_vars>>

\* an endpoint passes its checks holding the campaign it loaded with get_object()
ApiBegin(r, u, c, a, data) ==
    /\ req[r].pc = "idle"
    /\ ApiCheck(u, c, a, data) = 200
    /\ req' = [req EXCEPT ![r] = [pc |-> "atomic", user |-> u, campaign |-> c,
                                  action |-> a, data |-> data, obj |-> campaigns[c],
                                  prev_status |-> "none",
                                  comments |-> ValidatedComments(a, data),
                                  content |-> content[c]]]
    /\ response' = NoResponse
    /\ UNCHANGED <<campaigns, approval_steps, now, sweep, stage, service_vars>>

\* mutant: no transaction, the save is committed at once
VisibleAfterSave_Autocommit(r, obj) == [campaigns EXCEPT ![req[r].campaign] = obj]

\* rows other transactions can read once campaign.save() ran inside transaction.atomic()
VisibleAfterSave(r, obj) == campaigns

\* prev_status = campaign.status; campaign.<transition>(); campaign.save()
ApiSave(r) ==
    /\ req[r].pc = "atomic"
    /\ LET obj == [req[r].obj EXCEPT !.status = ApplyTransition(req[r].obj.status, req[r].action)]
       IN  /\ req' = [req EXCEPT ![r].pc = "saved",
                                 ![r].prev_status = req[r].obj.status,
                                 ![r].obj = obj]
           /\ campaigns' = VisibleAfterSave(r, obj)
    /\ response' = NoResponse
    /\ UNCHANGED <<approval_steps, now, sweep, stage, service_vars>>

\* mutant: prev_status is read after the transition ran
NewApprovalStep_PrevAfterTransition(r) ==
    [campaign |-> req[r].campaign,
     approver |-> req[r].user,
     decision |-> ActionDecision(req[r].action),
     comments |-> StepComments(req[r].action, req[r].comments),
     previous_status |-> req[r].obj.status,
     new_status |-> req[r].obj.status,
     created_at |-> now]

\* _create_approval_step(...)
NewApprovalStep(r) ==
    [campaign |-> req[r].campaign,
     approver |-> req[r].user,
     decision |-> ActionDecision(req[r].action),
     comments |-> StepComments(req[r].action, req[r].comments),
     previous_status |-> req[r].prev_status,
     new_status |-> req[r].obj.status,
     created_at |-> now]

Advance(st, s) ==
    IF st = 0 /\ s = "pending_review" THEN 1
    ELSE IF st = 1 /\ s = "approved" THEN 2
    ELSE IF st = 2 /\ s = "scheduled" THEN 3
    ELSE st

\* the ApprovalStep is created and the transaction commits; campaign.save() wrote
\* every column of the row from the loaded object, the content fields among them
ApiCommit(r) ==
    /\ req[r].pc = "saved"
    /\ Len(approval_steps) < MaxSteps
    /\ campaigns' = [campaigns EXCEPT ![req[r].campaign] = req[r].obj]
    /\ content' = [content EXCEPT ![req[r].campaign] = req[r].content]
    /\ approval_steps' = Append(approval_steps, NewApprovalStep(r))
    /\ stage' = [stage EXCEPT ![req[r].campaign] = Advance(@, req[r].obj.status)]
    /\ response' = [code |-> 200, user |-> req[r].user, campaign |-> req[r].campaign,
                    action |-> req[r].action, data |-> req[r].data,
                    was |-> req[r].prev_status]
    /\ req' = [req EXCEPT ![r] = IdleReq]
    /\ UNCHANGED <<now, sweep, recipients, outbox, mail, gen, task, search, links, parked>>

\* rows left after the transaction rolls back
AfterRollback(r) == campaigns

\* creating the ApprovalStep raises: the transaction rolls back, the request fails
ApiAbort(r) ==
    /\ req[r].pc = "saved"
    /\ campaigns' = AfterRollback(r)
    /\ response' = [code |-> 500, user |-> req[r].user, campaign |-> req[r].campaign,
                    action |-> req[r].action, data |-> req[r].data,
                    was |-> req[r].prev_status]
    /\ req' = [req EXCEPT ![r] = IdleReq]
    /\ UNCHANGED <<approval_steps, now, sweep, stage, service_vars>>

\* ------------------------------------------------------------------ create / update
\* POST /campaigns/: status is not a serializer field, so the model default applies
NewCampaign(s, e) ==
    [status |-> "draft", scheduled_start |-> s, scheduled_end |-> e]

Create(c, s, e) ==
    /\ ~Exists(c)
    /\ campaigns' = [campaigns EXCEPT ![c] = NewCampaign(s, e)]
    /\ stage' = [stage EXCEPT ![c] = 0]
    /\ response' = NoResponse
    /\ UNCHANGED <<approval_steps, now, req, sweep, service_vars>>

\* PATCH /campaigns/{id}/ by an admin: the schedule window is a writable field
Update(c, s, e) ==
    /\ Exists(c)
    /\ campaigns' = [campaigns EXCEPT ![c].scheduled_start = s, ![c].scheduled_end = e]
    /\ campaigns' # campaigns
    /\ response' = NoResponse
    /\ UNCHANGED <<approval_steps, now, req, sweep, stage, service_vars>>

\* ------------------------------------------------------------------ admin bulk actions
\* LocationCampaignAdmin.submit_for_review / approve_campaigns / reject_campaigns
AdminSave(c, a) ==
    IF can_proceed(campaigns[c].status, a)
    THEN [campaigns[c] EXCEPT !.status = ApplyTransition(campaigns[c].status, a)]
    ELSE campaigns[c]

AdminAction(a, S) ==
    /\ S # {}
    /\ \A c \in S : Exists(c)
    /\ \E c \in S : can_proceed(campaigns[c].status, a)
    /\ campaigns' = [c \in CampaignIds |-> IF c \in S THEN AdminSave(c, a) ELSE campaigns[c]]
    /\ stage' = [c \in CampaignIds |->
                    IF c \in S /\ can_proceed(campaigns[c].status, a)
                    THEN Advance(stage[c], TransitionTarget(a)) ELSE stage[c]]
    /\ response' = NoResponse
    /\ UNCHANGED <<approval_steps, now, req, sweep, service_vars>>

\* ------------------------------------------------------------------ periodic sweeps
\* mutant: the date comparisons are strict
SweepFilter_Strict(kind, row, t) ==
    IF kind = "activate"
    THEN row.status = "scheduled" /\ row.scheduled_start # NoTime /\ row.scheduled_start < t
    ELSE row.status = "active" /\ row.scheduled_end # NoTime /\ row.scheduled_end < t

\* the queryset filter of each sweep, evaluated at time t
SweepFilter(kind, row, t) ==
    IF kind = "activate"
    THEN row.status = "scheduled" /\ row.scheduled_start # NoTime /\ row.scheduled_start <= t
    ELSE row.status = "active" /\ row.scheduled_end # NoTime /\ row.scheduled_end <= t

Eligible(kind, t) == {c \in CampaignIds : SweepFilter(kind, campaigns[c], t)}

\* now = timezone.now(); the queryset is evaluated when the loop starts
SweepStart(w, kind) ==
    /\ sweep[w].pc = "idle"
    /\ sweep' = [sweep EXCEPT ![w] =
                    [pc |-> "running", kind |-> kind,
                     objs |-> [c \in CampaignIds |->
                                  IF c \in Eligible(kind, now) THEN campaigns[c] ELSE Absent],
                     contents |-> [c \in CampaignIds |->
                                  IF c \in Eligible(kind, now) THEN content[c] ELSE NoContent],
                     queue |-> Eligible(kind, now), eligible |-> Eligible(kind, now),
                     saved |-> {}, failed |-> {}, count |-> 0]]
    /\ response' = NoResponse
    /\ UNCHANGED <<campaigns, approval_steps, now, req, stage, service_vars>>

\* the status campaign.activate() / campaign.complete() leaves on the loaded object
SweepTransition(kind, obj) == [obj EXCEPT !.status = ApplyTransition(obj.status, kind)]

\* one loop iteration: with transaction.atomic(): transition; save; count += 1;
\* campaign.save() writes every column of the row from the loaded object
SweepItem(w, c) ==
    /\ sweep[w].pc = "running"
    /\ c \in sweep[w].queue
    /\ can_proceed(sweep[w].objs[c].status, sweep[w].kind)
    /\ campaigns' = [campaigns EXCEPT ![c] = SweepTransition(sweep[w].kind, sweep[w].objs[c])]
    /\ content' = [content EXCEPT ![c] = sweep[w].contents[c]]
    /\ stage' = [stage EXCEPT ![c] = Advance(@, campaigns'[c].status)]
    /\ sweep' = [sweep EXCEPT ![w].queue = @ \ {c},
                              ![w].objs[c] = Absent,
                              ![w].contents[c] = NoContent,
                              ![w].saved = @ \cup {c},
                              ![w].count = @ + 1]
    /\ response' = NoResponse
    /\ UNCHANGED <<approval_steps, now, req, recipients, outbox, mail, gen, task, search, links, parked>>

\* mutant: the exception leaves the loop
AfterItemFailure_AbortsLoop(s, c) ==
    [s EXCEPT !.queue = {}, !.objs = [d \in CampaignIds |-> Absent],
              !.contents = [d \in CampaignIds |-> NoContent], !.failed = @ \cup {c}]

\* where the loop stands after an iteration raised
AfterItemFailure(s, c) ==
    [s EXCEPT !.queue = @ \ {c}, !.objs[c] = Absent, !.contents[c] = NoContent,
              !.failed = @ \cup {c}]

\* one loop iteration raises inside its atomic block: logged, the loop goes on
SweepItemFail(w, c) ==
    /\ sweep[w].pc = "running"
    /\ c \in sweep[w].queue
    /\ sweep' = [sweep EXCEPT ![w] = AfterItemFailure(sweep[w], c)]
    /\ response' = NoResponse
    /\ UNCHANGED <<campaigns, approval_steps, now, req, stage, service_vars>>

\* return {"activated": activated_count} / {"completed": completed_count}
SweepEnd(w) ==
    /\ sweep[w].pc = "running"
    /\ sweep[w].queue = {}
    /\ sweep' = [sweep EXCEPT ![w] = IdleSweep]
    /\ response' = NoResponse
    /\ UNCHANGED <<campaigns, approval_steps, now, req, stage, service_vars>>

\* ------------------------------------------------------------------ time
Tick ==
    /\ now < MaxTime
    /\ now' = now + 1
    /\ response' = NoResponse
    /\ UNCHANGED <<campaigns, approval_steps, req, sweep, stage, service_vars>>

\* ------------------------------------------------------------------ specification
Init ==
    /\ parked = IdleMail
    /\ links = DefaultLinks
    /\ campaigns = [c \in CampaignIds |-> Absent]
    /\ approval_steps = << >>
    /\ now = 1
    /\ req = [r \in Requests |-> IdleReq]
    /\ sweep = [w \in SweepWorkers |-> IdleSweep]
    /\ response = NoResponse
    /\ stage = [c \in CampaignIds |-> 0]
    /\ content = [c \in CampaignIds |-> NoContent]
    /\ recipients = << >>
    /\ outbox = << >>
    /\ mail = IdleMail
    /\ gen = NoCall
    /\ task = [t \in TaskIds |-> NoTask]
    /\ search = NoSearch

\* request bodies tried on each endpoint: every body on reject, which requires one;
\* none or a padded comment on approve; none on the other endpoints
DataFor(a) ==
    IF a = "reject" THEN RequestData
    ELSE IF a = "approve" THEN {NoData, [has_comments |-> TRUE, comments |-> <<" ", "x">>]}
    ELSE {NoData}

\* the workflow of one campaign through the endpoints, refusals included, and the sweeps, at a fixed instant
Next ==
    \/ \E s, e \in {NoTime, 1} : Create("c1", s, e)
    \/ \E s, e \in {NoTime, 1} : Update("c1", s, e)
    \/ \E u \in Users \ {"admin"}, a \in ApiActions : ApiRefuse("r1", u, "c1", a, NoData)
    \/ \E a \in ApiActions : \E data \in DataFor(a) : ApiRefuse("r1", "admin", "c1", a, data)
    \/ \E a \in ApiActions : \E data \in DataFor(a) : ApiBegin("r1", "admin", "c1", a, data)
    \/ ApiSave("r1")
    \/ ApiCommit("r1")
    \/ ApiAbort("r1")
    \/ \E kind \in SweepKinds : SweepStart("w1", kind)
    \/ SweepItem("w1", "c1")
    \/ SweepItemFail("w1", "c1")
    \/ SweepEnd("w1")

Spec == Init /\ [][Next]_vars

\* two campaigns under the clock: admin review, scheduling, and the periodic sweeps
NextSweep ==
    \/ \E c \in CampaignIds, s, e \in Times \cup {NoTime} : Create(c, s, e)
    \/ \E a \in AdminActions, S \in SUBSET CampaignIds : AdminAction(a, S)
    \/ \E c \in CampaignIds : ApiBegin("r1", "admin", c, "schedule", NoData)
    \/ ApiSave("r1")
    \/ ApiCommit("r1")
    \/ ApiAbort("r1")
    \/ \E kind \in SweepKinds : SweepStart("w1", kind)
    \/ \E c \in CampaignIds : SweepItem("w1", c)
    \/ \E c \in CampaignIds : SweepItemFail("w1", c)
    \/ SweepEnd("w1")
    \/ Tick

SpecSweep == Init /\ [][NextSweep]_vars

\* one campaign under every operation that writes its status, at a fixed instant
NextLife ==
    \/ \E s, e \in {NoTime, 1} : Create("c1", s, e)
    \/ \E s, e \in {NoTime, 1} : Update("c1", s, e)
    \/ \E a \in ApiActions : ApiBegin("r1", "admin", "c1", a, [has_comments |-> TRUE, comments |-> <<"x">>])
    \/ ApiSave("r1")
    \/ ApiCommit("r1")
    \/ ApiAbort("r1")
    \/ \E a \in AdminActions : AdminAction(a, {"c1"})
    \/ \E kind \in SweepKinds : SweepStart("w1", kind)
    \/ SweepItem("w1", "c1")
    \/ SweepItemFail("w1", "c1")
    \/ SweepEnd("w1")

SpecLife == Init /\ [][NextLife]_vars

\* ------------------------------------------------------------------ email recipients
\* EmailService.RATE_LIMIT only paces the loop (time.sleep); it changes no state

\* the most items of one recipients_data list
MaxBatch == 2

\* CharField(max_length=255) of EmailRecipient.name
NameMaxLength == 255

\* str(e)[:500]
ErrorMessageLimit == 500

\* len("No HTML email content available")
NoHtmlMessageLen == 31

\* the "email" values of recipients_data: blank, padded, and two addresses, one
\* of them in either case
EmailInputs == {<< >>, <<"a">>, <<"A">>, <<" ", "a">>, <<"b">>}

\* the "name" values of recipients_data, by their length after strip()
NameInputs == {0, NameMaxLength + 1}

\* the items of recipients_data: every address with a short name, one address
\* also with a name the column cannot hold
RecipientData ==
    {d \in [email : EmailInputs, name : NameInputs] :
        d.name > NameMaxLength => d.email = <<"a">>}

RECURSIVE ListsUpTo(_, _)
ListsUpTo(S, n) ==
    IF n = 0 THEN {<< >>}
    ELSE LET shorter == ListsUpTo(S, n - 1)
         IN  shorter \cup {Append(l, x) : l \in {t \in shorter : Len(t) = n - 1}, x \in S}

\* the recipients_data lists a call is made with
RecipientLists == ListsUpTo(RecipientData, MaxBatch)

\* str.lower()
Lower(s) == [i \in 1..Len(s) |-> IF s[i] = "A" THEN "a" ELSE s[i]]

\* mutant: the address is stripped but keeps its case
NormalizeEmail_KeepCase(s) == Strip(s)

\* data.get("email", "").strip().lower()
NormalizeEmail(s) == Lower(Strip(s))

\* EmailRecipient.objects.create raises: PostgreSQL refuses a value longer than
\* the varchar(255) of the name column (create() runs no field validation)
CreateRaises(data) == data.name > NameMaxLength

\* campaign.email_recipients.values_list("email", flat=True)
ExistingEmails(c, rows) == {rows[i].email : i \in {j \in 1..Len(rows) : rows[j].campaign = c}}

NextRecipientId(rows) ==
    IF rows = << >> THEN 1
    ELSE 1 + (CHOOSE m \in {rows[i].id : i \in 1..Len(rows)} :
                  \A i \in 1..Len(rows) : rows[i].id <= m)

\* EmailRecipient.objects.create(campaign=, email=, name=): the defaults of the model
NewRecipient(id, c, email, name) ==
    [id |-> id, campaign |-> c, email |-> email, name |-> name,
     status |-> "pending", sent_at |-> NoTime, error_message |-> 0]

\* one pass of the loop of add_recipients over an item of recipients_data
AddOne(c, acc, data) ==
    LET email == NormalizeEmail(data.email)
    IN  IF email = << >> THEN acc
        ELSE IF email \in acc.existing_emails THEN [acc EXCEPT !.skipped = @ + 1]
        ELSE IF CreateRaises(data) THEN [acc EXCEPT !.errors = Append(@, email)]
        ELSE [acc EXCEPT !.rows = Append(@, NewRecipient(NextRecipientId(acc.rows), c, email, data.name)),
                         !.created = @ + 1,
                         !.existing_emails = @ \cup {email}]

RECURSIVE AddAll(_, _, _)
AddAll(c, acc, list) ==
    IF list = << >> THEN acc ELSE AddAll(c, AddOne(c, acc, Head(list)), Tail(list))

\* EmailService.add_recipients(campaign, recipients_data): the rows and the
\* created / skipped / errors it returns
add_recipients(c, rows, recipients_data) ==
    AddAll(c, [rows |-> rows, existing_emails |-> ExistingEmails(c, rows),
               created |-> 0, skipped |-> 0, errors |-> << >>], recipients_data)

\* recipients are added before the campaign's emails go out
AddRecipients(c, recipients_data) ==
    /\ mail.kind \in {"idle", "added"}
    /\ Exists(c)
    /\ \E r \in {add_recipients(c, recipients, recipients_data)} :
           /\ recipients' = r.rows
           /\ mail' = [kind |-> "added", campaign |-> c, data |-> recipients_data,
                       before |-> recipients,
                       created |-> r.created, skipped |-> r.skipped, errors |-> r.errors]
    /\ UNCHANGED <<workflow_vars, links, parked, content, outbox, gen, task, search>>

\* ------------------------------------------------------------------ email batch
\* the lengths of the text of the exception the mail transport raises
ExcTexts == {0, 1, ErrorMessageLimit, ErrorMessageLimit + 1}

\* mutant: the whole text of the exception is stored
Truncate_Whole(n) == n

\* str(e)[:500], on the length of the text
Truncate(n) == IF n > ErrorMessageLimit THEN ErrorMessageLimit ELSE n

RECURSIVE Reverse(_)
Reverse(s) == IF s = << >> THEN s ELSE Append(Reverse(Tail(s)), Head(s))

\* campaign.email_recipients.filter(status=PENDING), ids in Meta.ordering
\* (-created_at: newest first)
PendingOf(c) ==
    LET pending == SelectSeq(recipients, LAMBDA r : r.campaign = c /\ r.status = "pending")
    IN  Reverse([i \in 1..Len(pending) |-> pending[i].id])

RowOf(id) == CHOOSE i \in 1..Len(recipients) : recipients[i].id = id

\* a batch send that returned or raised before its loop
Refused(entry, c, outcome) ==
    [kind |-> "sent", entry |-> entry, campaign |-> c, outcome |-> outcome,
     status |-> campaigns[c].status, html |-> content[c].generated_html_email,
     selected |-> << >>, todo |-> << >>, total |-> 0, sent |-> 0, failed |-> 0,
     raised |-> {}, before |-> recipients, outbox_before |-> outbox]

\* the loop of send_campaign_batch over the pending recipients begins; with
\* nobody to send to it is over at once
Begun(entry, c) ==
    [Refused(entry, c, "stats") EXCEPT
        !.kind = IF PendingOf(c) = << >> THEN "sent" ELSE "batch",
        !.selected = PendingOf(c), !.todo = PendingOf(c)]

\* the task send_campaign_emails(campaign_id) up to its call of send_campaign_batch
SendCampaignEmailsTask(c) ==
    /\ mail.kind # "batch"
    /\ mail' = IF ~Exists(c) THEN Refused("task", c, "not_found")
               ELSE IF campaigns[c].status # "active" THEN Refused("task", c, "not_active")
               ELSE IF content[c].generated_html_email = "" THEN Refused("task", c, "no_html")
               ELSE Begun("task", c)
    /\ UNCHANGED <<workflow_vars, links, parked, content, recipients, outbox, gen, task, search>>

\* EmailService.send_campaign_batch(campaign) called on a campaign object
SendCampaignBatch(c) ==
    /\ mail.kind # "batch"
    /\ Exists(c)
    /\ mail' = IF campaigns[c].status # "active" THEN Refused("service", c, "ValueError")
               ELSE Begun("service", c)
    /\ UNCHANGED <<workflow_vars, links, parked, content, recipients, outbox, gen, task, search>>

\* the bookkeeping of the loop after send_campaign_email returned
AfterSend(success, raised) ==
    [mail EXCEPT !.todo = Tail(@),
                 !.kind = IF Tail(mail.todo) = << >> THEN "sent" ELSE "batch",
                 !.total = @ + 1,
                 !.sent = IF success THEN @ + 1 ELSE @,
                 !.failed = IF success THEN @ ELSE @ + 1,
                 !.raised = IF raised THEN @ \cup {Head(mail.todo)} ELSE @]

\* send_campaign_email: the campaign has no HTML, the recipient is marked failed
SendCampaignEmailNoHtml ==
    /\ mail.kind = "batch"
    /\ mail.html = ""
    /\ LET i == RowOf(Head(mail.todo))
       IN  recipients' = [recipients EXCEPT ![i].status = "failed",
                                            ![i].error_message = NoHtmlMessageLen]
    /\ mail' = AfterSend(FALSE, FALSE)
    /\ UNCHANGED <<workflow_vars, links, parked, content, outbox, gen, task, search>>

\* send_campaign_email: the transport accepts the message
SendCampaignEmail ==
    /\ mail.kind = "batch"
    /\ mail.html # ""
    /\ LET i == RowOf(Head(mail.todo))
       IN  /\ outbox' = Append(outbox, [to |-> recipients[i].email, campaign |-> mail.campaign])
           /\ recipients' = [recipients EXCEPT ![i].status = "sent",
                                                ![i].sent_at = now,
                                                ![i].error_message = 0]
    /\ mail' = AfterSend(TRUE, FALSE)
    /\ UNCHANGED <<workflow_vars, links, parked, content, gen, task, search>>

\* send_campaign_email: email.send raises an exception whose text has n characters
SendCampaignEmailFail(n) ==
    /\ mail.kind = "batch"
    /\ mail.html # ""
    /\ LET i == RowOf(Head(mail.todo))
       IN  recipients' = [recipients EXCEPT ![i].status = "failed",
                                            ![i].error_message = Truncate(n)]
    /\ mail' = AfterSend(FALSE, TRUE)
    /\ UNCHANGED <<workflow_vars, links, parked, content, outbox, gen, task, search>>

\* a campaign in one of the states the email service meets, with or without
\* its generated HTML; nobody has been added yet
MailStatus == {"draft", "active", "completed"}

InitMail ==
    /\ parked = IdleMail
    /\ links = DefaultLinks
    /\ \E st \in MailStatus :
           campaigns = [c \in CampaignIds |->
                          IF c = "c1" THEN [status |-> st, scheduled_start |-> 1, scheduled_end |-> MaxTime]
                          ELSE Absent]
    /\ \E html \in {"", "html"} :
           content = [c \in CampaignIds |-> [NoContent EXCEPT !.generated_html_email = html]]
    /\ approval_steps = << >>
    /\ now = 1
    /\ req = [r \in Requests |-> IdleReq]
    /\ sweep = [w \in SweepWorkers |-> IdleSweep]
    /\ response = NoResponse
    /\ stage = [c \in CampaignIds |-> 0]
    /\ recipients = << >>
    /\ outbox = << >>
    /\ mail = IdleMail
    /\ gen = NoCall
    /\ task = [t \in TaskIds |-> NoTask]
    /\ search = NoSearch

NextMail ==
    \/ \E data \in RecipientLists : AddRecipients("c1", data)
    \/ \E c \in CampaignIds : SendCampaignEmailsTask(c)
    \/ SendCampaignBatch("c1")
    \/ SendCampaignEmailNoHtml
    \/ SendCampaignEmail
    \/ \E n \in ExcTexts : SendCampaignEmailFail(n)

SpecMail == InitMail /\ [][NextMail]_vars

\* ------------------------------------------------------------------ templates
\* the most parts a content_template has
MaxTemplateLen == 2

\* the variables a template refers to: build_context always supplies the first,
\* the second comes from the customizations, if at all
TemplateVars == {"name", "order_id"}

Contexts == {{"name"}, {"name", "order_id"}}

\* how a template uses a variable: {{ v }}, {{ v.x }}, {{ v + 1 }}, {{ v - 1 }}
Uses == {"print", "attr", "add", "sub"}

\* the parts of a template: literal text, an expression on a variable, or a tag
\* left open (a syntax error); the values of the context support every use
TemplateParts ==
    {[var |-> "", use |-> "text"], [var |-> "", use |-> "unclosed"],
     [var |-> "name", use |-> "print"]}
        \cup [var : {"order_id"}, use : Uses]

Templates == ListsUpTo(TemplateParts, MaxTemplateLen)

\* jinja2.Undefined, the default of Environment(loader=BaseLoader()): printing
\* an undefined value gives "", every operation on it raises UndefinedError
Undefined(use) == IF use = "print" THEN "" ELSE "UndefinedError"

\* SilentUndefined: _fail_with_undefined_error returns "", which __getattr__
\* calls and the operators listed in the class body are bound to; __sub__ and
\* __rsub__ are not in the list and stay bound to the raising function of
\* jinja2.Undefined
SilentUndefined(use) == IF use = "sub" THEN "UndefinedError" ELSE ""

Ok(value) == [raised |-> "none", value |-> value]

Raise(exception) == [raised |-> exception, value |-> "none"]

\* what one part renders to in the environment of render_template_safe
\* (silent) or of render_template
Piece(part, context, silent) ==
    IF part.use = "text" THEN "text"
    ELSE IF part.var \in context THEN "value"
    ELSE IF silent THEN SilentUndefined(part.use)
    ELSE Undefined(part.use)

\* env.from_string(template_content).render(**context)
Render(template, context, silent) ==
    IF \E i \in 1..Len(template) : template[i].use = "unclosed"
    THEN Raise("TemplateSyntaxError")
    ELSE IF \E i \in 1..Len(template) : Piece(template[i], context, silent) = "UndefinedError"
    THEN Raise("UndefinedError")
    ELSE Ok([i \in 1..Len(template) |-> Piece(template[i], context, silent)])

\* ContentGeneratorService.render_template: both Jinja2 errors become ValueError
render_template(template, context) ==
    LET r == Render(template, context, FALSE)
    IN  IF r.raised = "TemplateSyntaxError" THEN Raise("ValueError: Invalid template syntax")
        ELSE IF r.raised = "UndefinedError" THEN Raise("ValueError: Missing required variable")
        ELSE r

\* ContentGeneratorService.render_template_safe: only the syntax error is caught
render_template_safe(template, context) ==
    LET r == Render(template, context, TRUE)
    IN  IF r.raised = "TemplateSyntaxError" THEN Raise("ValueError: Invalid template syntax")
        ELSE r

IsValueError(r) ==
    r.raised \in {"ValueError: Invalid template syntax", "ValueError: Missing required variable"}

\* ------------------------------------------------------------------ content generator
\* what the OpenAI chat model does when invoked
LlmOutcomes == {"content", "raises"}

\* what the OpenAI embeddings client does when asked for a vector
EmbedOutcomes == {"vector", "raises"}

\* what retrieving examples meets: similar campaigns, none, or an error in the
\* query embedding, in the similarity query, or in SimilaritySearchService()
RagOutcomes == {"examples", "nothing", "embedding_raises", "search_raises", "construction_raises"}

\* settings.OPENAI_API_KEY
ApiKeys == {"", "sk"}

\* mutant: the errors of the search leave get_rag_context
get_rag_context_Propagates(rag) ==
    IF rag \in {"embedding_raises", "search_raises"} THEN Raise("Exception")
    ELSE IF rag = "examples" THEN Ok(<<"example">>)
    ELSE Ok(<< >>)

\* SimilaritySearchService.get_rag_context: the two searches run inside the try,
\* any exception gives []
get_rag_context(rag) ==
    LET body == IF rag \in {"embedding_raises", "search_raises"} THEN Raise("Exception")
                ELSE IF rag = "examples" THEN Ok(<<"example">>)
                ELSE Ok(<< >>)
    IN  IF body.raised # "none" THEN Ok(<< >>) ELSE body

\* ContentGeneratorService._get_rag_context: the construction of the service
\* and its call run inside the try, any exception gives ("", "")
generator_get_rag_context(rag) ==
    LET body == IF rag = "construction_raises" THEN Raise("Exception")
                ELSE LET similar == get_rag_context(rag)
                     IN  IF similar.raised # "none" THEN similar
                         ELSE IF similar.value # << >>
                              THEN Ok(<<"rag_context", "rag_instruction">>)
                              ELSE Ok(<<"", "">>)
    IN  IF body.raised # "none" THEN Ok(<<"", "">>) ELSE body

\* ContentGeneratorService.generate_with_ai: the prompt, with the examples if
\* any, goes to the model; the llm property raises without a key
generate_with_ai(key, use_rag, rag, llm) ==
    LET rc == IF use_rag /\ key # "" THEN generator_get_rag_context(rag) ELSE Ok(<<"", "">>)
    IN  IF rc.raised # "none" THEN rc
        ELSE IF key = "" THEN Raise("ValueError: OPENAI_API_KEY is not configured")
        ELSE IF llm = "raises" THEN Raise("Exception")
        ELSE Ok([text |-> "generated", rag_context |-> rc.value[1]])

\* GenerationResult(content, used_ai, fallback_reason)
GenerationResult(c, used_ai, fallback_reason) ==
    [content |-> c, used_ai |-> used_ai, fallback_reason |-> fallback_reason]

\* the fall back of generate_content: strict rendering, and safe rendering
\* when that raises ValueError
Fallback(template, context) ==
    LET strict == render_template(template, context)
    IN  IF IsValueError(strict) THEN render_template_safe(template, context) ELSE strict

\* mutant: every fall back is reported as a failed generation
fallback_reason_AlwaysFailed(use_ai, key) == "AI generation failed"

\* the fallback_reason generate_content sets on its way to the template
fallback_reason(use_ai, key) ==
    IF use_ai /\ key # "" THEN "AI generation failed"
    ELSE IF use_ai THEN "AI not configured"
    ELSE "None"

\* ContentGeneratorService.generate_content; ai_called records whether
\* generate_with_ai ran
generate_content(in) ==
    LET ai == generate_with_ai(in.openai_api_key, TRUE, in.rag, in.llm)
        rendered == Fallback(in.template, in.context)
        reason == fallback_reason(in.use_ai, in.openai_api_key)
    IN  IF in.use_ai /\ in.openai_api_key # "" /\ ai.raised = "none"
        THEN [raised |-> "none", value |-> GenerationResult(ai.value, TRUE, "None"),
              ai_called |-> TRUE]
        ELSE [raised |-> rendered.raised,
              value |-> IF rendered.raised = "none"
                        THEN GenerationResult(rendered.value, FALSE, reason) ELSE "none",
              ai_called |-> in.use_ai /\ in.openai_api_key # ""]

\* mutant: an error of the embeddings client leaves generate_and_embed
Embedding_Propagates(in) ==
    IF in.openai_api_key = "" THEN Ok("null")
    ELSE IF in.embed = "raises" THEN Raise("Exception")
    ELSE Ok("vector")

\* the embedding step of generate_and_embed: generate_embedding is tried only
\* with a key, and its exception is logged
Embedding(in) ==
    IF in.openai_api_key = "" THEN Ok("null")
    ELSE IF in.embed = "raises" THEN Ok("null")
    ELSE Ok("vector")

\* ContentGeneratorService.generate_and_embed: (result, embedding)
generate_and_embed(in) ==
    LET result == generate_content(in)
        embedding == Embedding(in)
    IN  IF result.raised # "none" THEN Raise(result.raised)
        ELSE IF embedding.raised # "none" THEN embedding
        ELSE Ok([result |-> result.value, embedding |-> embedding.value])

\* the arguments and the surroundings of one call
GenInputs ==
    [template : Templates, context : Contexts, use_ai : BOOLEAN, use_rag : BOOLEAN,
     openai_api_key : ApiKeys, llm : LlmOutcomes, rag : RagOutcomes, embed : EmbedOutcomes]

Called(fn, result) == [fn |-> fn, in |-> gen.in, result |-> result]

CallRenderTemplate ==
    /\ gen.fn = "none"
    /\ gen' = Called("render_template", render_template(gen.in.template, gen.in.context))
    /\ UNCHANGED <<workflow_vars, links, parked, content, recipients, outbox, mail, task, search>>

CallRenderTemplateSafe ==
    /\ gen.fn = "none"
    /\ gen' = Called("render_template_safe", render_template_safe(gen.in.template, gen.in.context))
    /\ UNCHANGED <<workflow_vars, links, parked, content, recipients, outbox, mail, task, search>>

CallGenerateContent ==
    /\ gen.fn = "none"
    /\ gen' = Called("generate_content", generate_content(gen.in))
    /\ UNCHANGED <<workflow_vars, links, parked, content, recipients, outbox, mail, task, search>>

CallGenerateAndEmbed ==
    /\ gen.fn = "none"
    /\ gen' = Called("generate_and_embed", generate_and_embed(gen.in))
    /\ UNCHANGED <<workflow_vars, links, parked, content, recipients, outbox, mail, task, search>>

CallGetRagContext ==
    /\ gen.fn = "none"
    /\ gen' = Called("get_rag_context", get_rag_context(gen.in.rag))
    /\ UNCHANGED <<workflow_vars, links, parked, content, recipients, outbox, mail, task, search>>

CallGeneratorGetRagContext ==
    /\ gen.fn = "none"
    /\ gen' = Called("_get_rag_context", generator_get_rag_context(gen.in.rag))
    /\ UNCHANGED <<workflow_vars, links, parked, content, recipients, outbox, mail, task, search>>

CallGenerateWithAi ==
    /\ gen.fn = "none"
    /\ gen' = Called("generate_with_ai",
                     generate_with_ai(gen.in.openai_api_key, gen.in.use_rag, gen.in.rag, gen.in.llm))
    /\ UNCHANGED <<workflow_vars, links, parked, content, recipients, outbox, mail, task, search>>

\* a service about to be called with some arguments
InitGen ==
    /\ parked = IdleMail
    /\ links = DefaultLinks
    /\ campaigns = [c \in CampaignIds |-> Absent]
    /\ approval_steps = << >>
    /\ now = 1
    /\ req = [r \in Requests |-> IdleReq]
    /\ sweep = [w \in SweepWorkers |-> IdleSweep]
    /\ response = NoResponse
    /\ stage = [c \in CampaignIds |-> 0]
    /\ content = [c \in CampaignIds |-> NoContent]
    /\ recipients = << >>
    /\ outbox = << >>
    /\ mail = IdleMail
    /\ \E in \in GenInputs : gen = [fn |-> "none", in |-> in, result |-> Ok("none")]
    /\ task = [t \in TaskIds |-> NoTask]
    /\ search = NoSearch

NextGen ==
    \/ CallRenderTemplate
    \/ CallRenderTemplateSafe
    \/ CallGenerateContent
    \/ CallGenerateAndEmbed
    \/ CallGetRagContext
    \/ CallGeneratorGetRagContext
    \/ CallGenerateWithAi

SpecGen == InitGen /\ [][NextGen]_vars

\* ------------------------------------------------------------------ similarity search
\* similarities and cosine distances are counted in tenths: 7 stands for 0.7
SimilarityScale == 10

\* SimilaritySearchService.DEFAULT_SIMILARITY_THRESHOLD = 0.7
DEFAULT_SIMILARITY_THRESHOLD == 7

\* similarity_threshold=None, the default of the argument
NoThreshold == -1

\* the largest limit of a query
MaxLimit == 2

\* the campaigns of the index: the two of the workflow and one more of the
\* second brand
CorpusIds == CampaignIds \cup {"c3"}

\* content_embedding IS NULL, or the cosine distance of the embedding to the
\* query embedding
Distances == {2, 3, 4}

CorpusRows == [embedding : {"null", "vector"}, distance : Distances, status : {"draft", "active"}]

\* the rows of location_campaigns as the query sees them; a row without an
\* embedding has no distance
Corpora ==
    {corpus \in [CorpusIds -> CorpusRows] :
        \A c \in CorpusIds : corpus[c].embedding = "null" => corpus[c].distance = 2}

\* the arguments of find_similar_campaigns: NoThreshold, "None" and {} stand
\* for an argument left out (None, or an empty list, which the code treats alike)
Queries ==
    [limit : 0..MaxLimit,
     similarity_threshold : {NoThreshold, 6},
     exclude_campaign_ids : {{}, {"c1"}},
     brand_id : {"None", "b2"},
     status_filter : {{}, {"completed", "active"}}]

\* mutant: the distance is taken to run over twice the range of the similarity
MaxDistance_Doubled(similarity_threshold) == 2 * (SimilarityScale - similarity_threshold)

\* max_distance = 1 - similarity_threshold
MaxDistance(similarity_threshold) == SimilarityScale - similarity_threshold

\* the rows left by the filters and the exclusion of the queryset
Selected(corpus, q) ==
    LET threshold == IF q.similarity_threshold = NoThreshold THEN DEFAULT_SIMILARITY_THRESHOLD
                     ELSE q.similarity_threshold
    IN  {c \in CorpusIds :
            /\ corpus[c].embedding # "null"
            /\ q.exclude_campaign_ids # {} => c \notin q.exclude_campaign_ids
            /\ q.brand_id # "None" => LocationBrand(c) = q.brand_id
            /\ q.status_filter # {} => corpus[c].status \in q.status_filter
            /\ corpus[c].distance <= MaxDistance(threshold)}

\* the orders ORDER BY distance can return the rows in: rows at the same
\* distance come in any order
Ordered(corpus, S) ==
    {s \in [1..Cardinality(S) -> S] :
        /\ \A i, j \in 1..Cardinality(S) : i # j => s[i] # s[j]
        /\ \A i, j \in 1..Cardinality(S) : i < j => corpus[s[i]].distance <= corpus[s[j]].distance}

\* SimilarCampaign(campaign_id, ..., distance, similarity_score = 1 - distance)
SimilarCampaign(corpus, c) ==
    [campaign_id |-> c, distance |-> corpus[c].distance,
     similarity_score |-> SimilarityScale - corpus[c].distance]

\* queryset[:limit], as result objects
find_similar_campaigns(corpus, q, order) ==
    LET n == IF Len(order) < q.limit THEN Len(order) ELSE q.limit
    IN  [i \in 1..n |-> SimilarCampaign(corpus, order[i])]

FindSimilarCampaigns ==
    /\ ~search.ran
    /\ \E order \in Ordered(search.corpus, Selected(search.corpus, search.query)) :
           search' = [search EXCEPT !.ran = TRUE,
                                    !.results = find_similar_campaigns(search.corpus, search.query, order)]
    /\ UNCHANGED <<workflow_vars, links, parked, content, recipients, outbox, mail, gen, task>>

\* an index and a query about to be run on it
InitSearch ==
    /\ parked = IdleMail
    /\ links = DefaultLinks
    /\ campaigns = [c \in CampaignIds |-> Absent]
    /\ approval_steps = << >>
    /\ now = 1
    /\ req = [r \in Requests |-> IdleReq]
    /\ sweep = [w \in SweepWorkers |-> IdleSweep]
    /\ response = NoResponse
    /\ stage = [c \in CampaignIds |-> 0]
    /\ content = [c \in CampaignIds |-> NoContent]
    /\ recipients = << >>
    /\ outbox = << >>
    /\ mail = IdleMail
    /\ gen = NoCall
    /\ task = [t \in TaskIds |-> NoTask]
    /\ \E corpus \in Corpora, q \in Queries :
           search = [ran |-> FALSE, corpus |-> corpus, query |-> q, results |-> << >>]

NextSearch == FindSimilarCampaigns

SpecSearch == InitSearch /\ [][NextSearch]_vars

\* ------------------------------------------------------------------ generation task
\* @shared_task(bind=True, max_retries=3, default_retry_delay=60)
max_retries == 3

\* what a run of the task meets: the deployment has a key, the template of the
\* campaign is plain text or has a syntax error, the model and the embeddings
\* client answer or raise
TaskInputs ==
    [template : {<<[var |-> "", use |-> "text"]>>, <<[var |-> "", use |-> "unclosed"]>>},
     context : {{"name"}}, use_ai : {TRUE}, use_rag : {TRUE}, openai_api_key : {"sk"},
     llm : LlmOutcomes, rag : {"nothing"}, embed : EmbedOutcomes]

\* generate_campaign_content.delay(campaign_id): the message waits in the queue
Queued(c) == [state |-> "PENDING", campaign |-> c, retries |-> 0, executions |-> 0, result |-> "none"]

\* mutant: one retry more than max_retries
ShouldRetry_OneMore(retries) == retries <= max_retries

\* Task.retry: the run whose request.retries has reached max_retries raises the
\* exception instead of scheduling another run
ShouldRetry(retries) == retries < max_retries

\* raise self.retry(exc=exc)
AfterException(t) ==
    IF ShouldRetry(t.retries)
    THEN [t EXCEPT !.state = "RETRY", !.retries = @ + 1, !.executions = @ + 1]
    ELSE [t EXCEPT !.state = "FAILURE", !.executions = @ + 1, !.result = "exception"]

\* str() of the GenerationResult, which is what the TextField stores when the
\* dataclass is assigned to generated_content
ReprOf(result) ==
    IF result.used_ai THEN "GenerationResult(used_ai=True)" ELSE "GenerationResult(used_ai=False)"

Waiting(t) == task[t].state \in {"PENDING", "RETRY"}

Enqueue(t, c) ==
    /\ task[t].state = "none"
    /\ task' = [task EXCEPT ![t] = Queued(c)]
    /\ UNCHANGED <<workflow_vars, links, parked, content, recipients, outbox, mail, gen, search>>

\* a run that finds no campaign: the error result is returned, nothing is retried
RunNotFound(t) ==
    /\ Waiting(t)
    /\ ~Exists(task[t].campaign)
    /\ task' = [task EXCEPT ![t].state = "SUCCESS", ![t].executions = @ + 1,
                            ![t].result = "error: Campaign not found"]
    /\ UNCHANGED <<workflow_vars, links, parked, content, recipients, outbox, mail, gen, search>>

\* a run in which generate_and_embed raises
RunGenerationRaises(t, in) ==
    /\ Waiting(t)
    /\ Exists(task[t].campaign)
    /\ generate_and_embed(in).raised # "none"
    /\ task' = [task EXCEPT ![t] = AfterException(@)]
    /\ UNCHANGED <<workflow_vars, links, parked, content, recipients, outbox, mail, gen, search>>

\* a run in which generate_and_embed returns: the result object is assigned to
\* generated_content and saved, with the embedding if there is one; then
\* len(content) raises TypeError, a GenerationResult having no length, and the
\* run ends in the retry of the exception handler (the return of the success
\* result is never reached)
RunSavesThenRaises(t, in) ==
    /\ Waiting(t)
    /\ Exists(task[t].campaign)
    /\ LET r == generate_and_embed(in)
           c == task[t].campaign
       IN  /\ r.raised = "none"
           /\ content' = [content EXCEPT
                  ![c].generated_content = ReprOf(r.value.result),
                  ![c].content_embedding = IF r.value.embedding # "null" THEN "vector" ELSE @]
    /\ task' = [task EXCEPT ![t] = AfterException(@)]
    /\ UNCHANGED <<workflow_vars, links, parked, recipients, outbox, mail, gen, search>>

\* one run of the task by a worker
Run(t) ==
    \/ RunNotFound(t)
    \/ \E in \in TaskInputs : RunGenerationRaises(t, in)
    \/ \E in \in TaskInputs : RunSavesThenRaises(t, in)

\* one campaign exists, the other id belongs to no campaign; nothing is queued
InitTask ==
    /\ parked = IdleMail
    /\ links = DefaultLinks
    /\ campaigns = [c \in CampaignIds |-> IF c = "c1" THEN NewCampaign(NoTime, NoTime) ELSE Absent]
    /\ approval_steps = << >>
    /\ now = 1
    /\ req = [r \in Requests |-> IdleReq]
    /\ sweep = [w \in SweepWorkers |-> IdleSweep]
    /\ response = NoResponse
    /\ stage = [c \in CampaignIds |-> 0]
    /\ content = [c \in CampaignIds |-> NoContent]
    /\ recipients = << >>
    /\ outbox = << >>
    /\ mail = IdleMail
    /\ gen = NoCall
    /\ task = [t \in TaskIds |-> NoTask]
    /\ search = NoSearch

NextTask ==
    \/ \E t \in TaskIds, c \in CampaignIds : Enqueue(t, c)
    \/ \E t \in TaskIds : RunNotFound(t)
    \/ \E t \in TaskIds, in \in TaskInputs : RunGenerationRaises(t, in)
    \/ \E t \in TaskIds, in \in TaskInputs : RunSavesThenRaises(t, in)

SpecTask == InitTask /\ [][NextTask]_vars

\* a worker of the "ai" queue takes every message that waits, first runs and
\* retries alike
SpecTaskLive == SpecTask /\ \A t \in TaskIds : WF_vars(Run(t))

\* ------------------------------------------------------------------ update / destroy
\* ModelViewSet.destroy: instance.delete(); the approval steps and the
\* recipients of the campaign go with it (on_delete=CASCADE)
Destroy(c) ==
    /\ Exists(c)
    /\ campaigns' = [campaigns EXCEPT ![c] = Absent]
    /\ approval_steps' = SelectSeq(approval_steps, LAMBDA st : st.campaign # c)
    /\ recipients' = SelectSeq(recipients, LAMBDA r : r.campaign # c)
    /\ content' = [content EXCEPT ![c] = NoContent]
    /\ stage' = [stage EXCEPT ![c] = 0]
    /\ response' = NoResponse
    /\ UNCHANGED <<now, req, sweep, outbox, mail, gen, task, search, links, parked>>

\* two campaigns with their dates, the first anywhere in its life, the second
\* a draft
InitEdit ==
    /\ parked = IdleMail
    /\ links = DefaultLinks
    /\ \E st \in Status :
           campaigns = [c \in CampaignIds |->
                          [status |-> IF c = "c1" THEN st ELSE "draft",
                           scheduled_start |-> 1, scheduled_end |-> MaxTime]]
    /\ approval_steps = << >>
    /\ now = 1
    /\ req = [r \in Requests |-> IdleReq]
    /\ sweep = [w \in SweepWorkers |-> IdleSweep]
    /\ response = NoResponse
    /\ stage = [c \in CampaignIds |-> 0]
    /\ content = [c \in CampaignIds |-> NoContent]
    /\ recipients = << >>
    /\ outbox = << >>
    /\ mail = IdleMail
    /\ gen = NoCall
    /\ task = [t \in TaskIds |-> NoTask]
    /\ search = NoSearch

NextEdit ==
    \/ \E c \in CampaignIds, s, e \in {NoTime} \cup Times : Update(c, s, e)
    \/ \E c \in CampaignIds : Destroy(c)

SpecEdit == InitEdit /\ [][NextEdit]_vars

\* ------------------------------------------------------------------ location and template of a campaign
\* the location and template keys of a request body; a PATCH may carry either, both or none
NoAttr == "none"

CampaignAttrs ==
    [location : Locations \cup {NoAttr}, template : CampaignTemplates \cup {NoAttr}]

\* attrs.get("location") or self.instance.location, and the same for the template
Resulting(attrs, instance) ==
    [location |-> IF attrs.location # NoAttr THEN attrs.location ELSE instance.location,
     template |-> IF attrs.template # NoAttr THEN attrs.template ELSE instance.template]

\* mutant: only the keys of the request body are compared
validate_AttrsOnly(attrs, instance) ==
    ~(attrs.location # NoAttr /\ attrs.template # NoAttr
      /\ BrandOf(attrs.location) # BrandOf(attrs.template))

\* LocationCampaignCreateUpdateSerializer.validate: FALSE when it raises ValidationError
validate(attrs, instance) ==
    BrandOf(Resulting(attrs, instance).location) = BrandOf(Resulting(attrs, instance).template)

\* the response of a create or update request
CrudResponse(code, c, a, attrs) ==
    [code |-> code, user |-> "admin", campaign |-> c, action |-> a, data |-> attrs,
     was |-> campaigns[c].status]

\* POST /campaigns/: location and template are required fields; is_valid() runs
\* validate(); serializer.save() inserts the row
CreateCampaign(c, attrs) ==
    /\ ~Exists(c)
    /\ attrs.location # NoAttr /\ attrs.template # NoAttr
    /\ validate(attrs, links[c])
    /\ campaigns' = [campaigns EXCEPT ![c] = NewCampaign(NoTime, NoTime)]
    /\ links' = [links EXCEPT ![c] = Resulting(attrs, links[c])]
    /\ stage' = [stage EXCEPT ![c] = 0]
    /\ response' = CrudResponse(201, c, "create", attrs)
    /\ UNCHANGED <<approval_steps, now, req, sweep,
                   content, recipients, outbox, mail, gen, task, search, parked>>

\* POST /campaigns/ answered 400: a required key is missing or validate() raised
CreateCampaignRejected(c, attrs) ==
    /\ ~Exists(c)
    /\ \/ attrs.location = NoAttr
       \/ attrs.template = NoAttr
       \/ ~validate(attrs, links[c])
    /\ response' = CrudResponse(400, c, "create", attrs)
    /\ UNCHANGED <<campaigns, approval_steps, now, req, sweep, stage, service_vars>>

\* PATCH /campaigns/{id}/: is_valid() runs validate() against the stored instance;
\* serializer.save() sets the given attributes and saves the row
UpdateCampaign(c, attrs) ==
    /\ Exists(c)
    /\ validate(attrs, links[c])
    /\ links' = [links EXCEPT ![c] = Resulting(attrs, links[c])]
    /\ response' = CrudResponse(200, c, "update", attrs)
    /\ UNCHANGED <<campaigns, approval_steps, now, req, sweep, stage,
                   content, recipients, outbox, mail, gen, task, search, parked>>

\* PATCH /campaigns/{id}/ answered 400: validate() raised
UpdateCampaignRejected(c, attrs) ==
    /\ Exists(c)
    /\ ~validate(attrs, links[c])
    /\ response' = CrudResponse(400, c, "update", attrs)
    /\ UNCHANGED <<campaigns, approval_steps, now, req, sweep, stage, service_vars>>

\* campaigns created and updated through the API with every choice of location and template
NextBrand ==
    \/ \E c \in CampaignIds, attrs \in CampaignAttrs : CreateCampaign(c, attrs)
    \/ \E c \in CampaignIds, attrs \in CampaignAttrs : CreateCampaignRejected(c, attrs)
    \/ \E c \in CampaignIds, attrs \in CampaignAttrs : UpdateCampaign(c, attrs)
    \/ \E c \in CampaignIds, attrs \in CampaignAttrs : UpdateCampaignRejected(c, attrs)

SpecBrand == Init /\ [][NextBrand]_vars

\* ------------------------------------------------------------------ retention of approval steps
\* timedelta(days=365), the clock counted in days
RetentionDays == 365

\* one_year_ago = timezone.now() - timedelta(days=365)
one_year_ago == now - RetentionDays

\* ApprovalStep.objects.filter(campaign__status=COMPLETED, created_at__lt=one_year_ago)
old_steps(st) ==
    campaigns[st.campaign].status = "completed" /\ st.created_at < one_year_ago

\* cleanup_old_data: old_steps.delete()
cleanup_old_data ==
    /\ approval_steps' = SelectSeq(approval_steps, LAMBDA st : ~old_steps(st))
    /\ approval_steps' # approval_steps
    /\ response' = NoResponse
    /\ UNCHANGED <<campaigns, now, req, sweep, stage, service_vars>>

\* ApprovalStepAdmin refuses add and change and leaves has_delete_permission
\* at its default: the admin site deletes the i-th step
ApprovalStepAdminDelete(i) ==
    /\ i \in 1..Len(approval_steps)
    /\ approval_steps' = [j \in 1..(Len(approval_steps) - 1) |->
                             IF j < i THEN approval_steps[j] ELSE approval_steps[j + 1]]
    /\ response' = NoResponse
    /\ UNCHANGED <<campaigns, now, req, sweep, stage, service_vars>>

\* the days on which the steps on file were created, and the days of the sweep
StepDays == {1, 2}

SweepDays == {RetentionDays + 1, RetentionDays + 2}

\* a step on file, as an endpoint of the workflow left it
StoredStep(c, d) ==
    [campaign |-> c, approver |-> "admin", decision |-> "submitted", comments |-> << >>,
     previous_status |-> "draft", new_status |-> "pending_review", created_at |-> d]

\* two campaigns, completed or not, with up to MaxSteps - 1 steps of either age
InitRetention ==
    /\ parked = IdleMail
    /\ links = DefaultLinks
    /\ \E s1, s2 \in {"draft", "active", "completed"} :
           campaigns = [c \in CampaignIds |->
                          [status |-> IF c = "c1" THEN s1 ELSE s2,
                           scheduled_start |-> 1, scheduled_end |-> MaxTime]]
    /\ approval_steps \in ListsUpTo({StoredStep(c, d) : c \in CampaignIds, d \in StepDays},
                                    MaxSteps - 1)
    /\ now \in SweepDays
    /\ req = [r \in Requests |-> IdleReq]
    /\ sweep = [w \in SweepWorkers |-> IdleSweep]
    /\ response = NoResponse
    /\ stage = [c \in CampaignIds |-> 0]
    /\ content = [c \in CampaignIds |-> NoContent]
    /\ recipients = << >>
    /\ outbox = << >>
    /\ mail = IdleMail
    /\ gen = NoCall
    /\ task = [t \in TaskIds |-> NoTask]
    /\ search = NoSearch

\* the operations that remove approval steps
NextRetention ==
    \/ cleanup_old_data
    \/ \E c \in CampaignIds : Destroy(c)
    \/ \E i \in 1..MaxSteps : ApprovalStepAdminDelete(i)

SpecRetention == InitRetention /\ [][NextRetention]_vars

\* ------------------------------------------------------------------ concurrent workflow requests
\* the body every request of the two workers carries
RaceData == [has_comments |-> TRUE, comments |-> <<"x">>]

\* one campaign and two API workers, each serving workflow requests on it: a
\* request loads the campaign, runs its checks, and saves inside its own transaction
NextRace ==
    \/ Create("c1", 1, 1)
    \/ \E r \in Requests, a \in ApiActions : ApiBegin(r, "admin", "c1", a, RaceData)
    \/ \E r \in Requests : ApiSave(r)
    \/ \E r \in Requests : ApiCommit(r)
    \/ \E r \in Requests : ApiAbort(r)

SpecRace == Init /\ [][NextRace]_vars

\* ------------------------------------------------------------------ transitions beside content generation
\* one campaign, a draft or scheduled and due, with no content yet
InitOverlap ==
    /\ parked = IdleMail
    /\ links = DefaultLinks
    /\ \E st \in {"draft", "scheduled"} :
           campaigns = [c \in CampaignIds |->
                          IF c = "c1" THEN [status |-> st, scheduled_start |-> 1, scheduled_end |-> MaxTime]
                          ELSE Absent]
    /\ approval_steps = << >>
    /\ now = 1
    /\ req = [r \in Requests |-> IdleReq]
    /\ sweep = [w \in SweepWorkers |-> IdleSweep]
    /\ response = NoResponse
    /\ stage = [c \in CampaignIds |-> 0]
    /\ content = [c \in CampaignIds |-> NoContent]
    /\ recipients = << >>
    /\ outbox = << >>
    /\ mail = IdleMail
    /\ gen = NoCall
    /\ task = [t \in TaskIds |-> NoTask]
    /\ search = NoSearch

\* the generation task of the campaign beside a workflow request and the
\* activation sweep, each a process of its own
NextOverlap ==
    \/ Enqueue("t1", "c1")
    \/ \E in \in TaskInputs : RunGenerationRaises("t1", in)
    \/ \E in \in TaskInputs : RunSavesThenRaises("t1", in)
    \/ \E a \in ApiActions : ApiBegin("r1", "admin", "c1", a, RaceData)
    \/ ApiSave("r1")
    \/ ApiCommit("r1")
    \/ ApiAbort("r1")
    \/ SweepStart("w1", "activate")
    \/ SweepItem("w1", "c1")
    \/ SweepItemFail("w1", "c1")
    \/ SweepEnd("w1")

SpecOverlap == InitOverlap /\ [][NextOverlap]_vars

\* ------------------------------------------------------------------ overlapping batch sends
\* two workers execute send_campaign_emails side by side: the worker that takes
\* the next step changes; the execution of the other one waits where it stands
SwitchWorker ==
    /\ mail' = parked
    /\ parked' = mail
    /\ mail' # mail
    /\ UNCHANGED <<workflow_vars, links, content, recipients, outbox, gen, task, search>>

\* an active campaign with its HTML and two pending recipients
InitSenders ==
    /\ links = DefaultLinks
    /\ parked = IdleMail
    /\ campaigns = [c \in CampaignIds |->
                      IF c = "c1" THEN [status |-> "active", scheduled_start |-> 1, scheduled_end |-> MaxTime]
                      ELSE Absent]
    /\ content = [c \in CampaignIds |-> [NoContent EXCEPT !.generated_html_email = "html"]]
    /\ approval_steps = << >>
    /\ now = 1
    /\ req = [r \in Requests |-> IdleReq]
    /\ sweep = [w \in SweepWorkers |-> IdleSweep]
    /\ response = NoResponse
    /\ stage = [c \in CampaignIds |-> 0]
    /\ recipients = <<NewRecipient(1, "c1", <<"a">>, 0), NewRecipient(2, "c1", <<"b">>, 0)>>
    /\ outbox = << >>
    /\ mail = IdleMail
    /\ gen = NoCall
    /\ task = [t \in TaskIds |-> NoTask]
    /\ search = NoSearch

\* executions of send_campaign_emails for the campaign, one after another and
\* side by side
NextSenders ==
    \/ SendCampaignEmailsTask("c1")
    \/ SendCampaignEmail
    \/ SendCampaignEmailFail(1)
    \/ SwitchWorker

SpecSenders == InitSenders /\ [][NextSenders]_vars

\* ------------------------------------------------------------------ overlapping sweeps
\* two campaigns, each scheduled and due or active and expired
InitSweeps ==
    /\ links = DefaultLinks
    /\ parked = IdleMail
    /\ \E s1, s2 \in {"scheduled", "active"} :
           campaigns = [c \in CampaignIds |->
                          [status |-> IF c = "c1" THEN s1 ELSE s2,
                           scheduled_start |-> 1, scheduled_end |-> 1]]
    /\ approval_steps = << >>
    /\ now = 1
    /\ req = [r \in Requests |-> IdleReq]
    /\ sweep = [w \in SweepWorkers |-> IdleSweep]
    /\ response = NoResponse
    /\ stage = [c \in CampaignIds |-> 3]
    /\ content = [c \in CampaignIds |-> NoContent]
    /\ recipients = << >>
    /\ outbox = << >>
    /\ mail = IdleMail
    /\ gen = NoCall
    /\ task = [t \in TaskIds |-> NoTask]
    /\ search = NoSearch

\* runs of the two sweeps on two workers, one after another and side by side
NextSweeps ==
    \/ \E w \in SweepWorkers, kind \in SweepKinds : SweepStart(w, kind)
    \/ \E w \in SweepWorkers, c \in CampaignIds : SweepItem(w, c)
    \/ \E w \in SweepWorkers, c \in CampaignIds : SweepItemFail(w, c)
    \/ \E w \in SweepWorkers : SweepEnd(w)

SpecSweeps == InitSweeps /\ [][NextSweeps]_vars

\* ------------------------------------------------------------------ the schedule under the clock
\* one campaign from its creation to the end of its window: reviewed in the
\* admin site, scheduled and updated through the API, moved on by the sweeps
NextSchedule ==
    \/ \E s, e \in Times : Create("c1", s, e)
    \/ \E s, e \in {NoTime} \cup Times : Update("c1", s, e)
    \/ \E a \in {"submit", "approve"} : AdminAction(a, {"c1"})
    \/ ApiBegin("r1", "admin", "c1", "schedule", NoData)
    \/ ApiSave("r1")
    \/ ApiCommit("r1")
    \/ ApiAbort("r1")
    \/ \E kind \in SweepKinds : SweepStart("w1", kind)
    \/ SweepItem("w1", "c1")
    \/ SweepItemFail("w1", "c1")
    \/ SweepEnd("w1")
    \/ Tick

\* the clock advances; beat starts each sweep every five minutes, so each is
\* started again and again; a run goes through its loop and returns; an
\* iteration does not fail for ever
SpecSchedule ==
    /\ Init
    /\ [][NextSchedule]_vars
    /\ WF_vars(Tick)
    /\ \A kind \in SweepKinds : SF_vars(SweepStart("w1", kind))
    /\ SF_vars(SweepItem("w1", "c1"))
    /\ WF_vars(SweepEnd("w1"))

\* ------------------------------------------------------------------ synchronous generation
\* the response of POST /campaigns/{id}/generate_content/ without async_generation
GenerateResponse(code, c) ==
    [code |-> code, user |-> "admin", campaign |-> c, action |-> "generate_content",
     data |-> NoData, was |-> campaigns[c].status]

\* generate_and_embed raises: the except branch answers 500
GenerateContentRaises(c, in) ==
    /\ Exists(c)
    /\ generate_and_embed(in).raised # "none"
    /\ response' = GenerateResponse(500, c)
    /\ UNCHANGED <<campaigns, approval_steps, now, req, sweep, stage, service_vars>>

\* generate_and_embed returns: the result object is assigned to generated_content
\* and saved, with the embedding if there is one; building the response then
\* evaluates len(content), which raises TypeError inside the try block, and the
\* except branch answers 500
GenerateContentSavesThenRaises(c, in) ==
    /\ Exists(c)
    /\ LET r == generate_and_embed(in)
       IN  /\ r.raised = "none"
           /\ content' = [content EXCEPT
                  ![c].generated_content = ReprOf(r.value.result),
                  ![c].content_embedding = IF r.value.embedding # "null" THEN "vector" ELSE @]
    /\ response' = GenerateResponse(500, c)
    /\ UNCHANGED <<campaigns, approval_steps, now, req, sweep, stage,
                   recipients, outbox, mail, gen, task, search, links, parked>>

\* content generation for the campaign, queued as a task and asked for synchronously
NextGenerate ==
    \/ \E t \in TaskIds, c \in CampaignIds : Enqueue(t, c)
    \/ \E t \in TaskIds : RunNotFound(t)
    \/ \E t \in TaskIds, in \in TaskInputs : RunGenerationRaises(t, in)
    \/ \E t \in TaskIds, in \in TaskInputs : RunSavesThenRaises(t, in)
    \/ \E in \in TaskInputs : GenerateContentRaises("c1", in)
    \/ \E in \in TaskInputs : GenerateContentSavesThenRaises("c1", in)

SpecGenerate == InitTask /\ [][NextGenerate]_vars

\* ------------------------------------------------------------------ claims
\* the legal (status, action) pairs and their targets, as the specification tables them
TransitionTable ==
    {<<"draft", "submit">>, <<"pending_review", "approve">>, <<"pending_review", "reject">>,
     <<"approved", "schedule">>, <<"scheduled", "activate">>, <<"active", "complete">>,
     <<"draft", "revise">>, <<"rejected", "revise">>}

TableTarget(a) ==
    CASE a = "submit"   -> "pending_review"
      [] a = "approve"  -> "approved"
      [] a = "reject"   -> "rejected"
      [] a = "schedule" -> "scheduled"
      [] a = "activate" -> "active"
      [] a = "complete" -> "completed"
      [] a = "revise"   -> "draft"

ErrorCodes == {400, 403, 404}

LastStep == approval_steps[Len(approval_steps)]

StepsOf(c) == SelectSeq(approval_steps, LAMBDA s : s.campaign = c)

\* C1: an action attempted from a status outside the transition table is refused
\* (TransitionNotAllowed at the model, an error response at the API) and changes
\* neither the campaign's status nor the approval steps.
C1_InvalidTransitionRefused ==
    /\ [](/\ \A s \in Status, a \in Actions :
               <<s, a>> \notin TransitionTable => ApplyTransition(s, a) = "TransitionNotAllowed"
          /\ (response.was \in Status /\ <<response.was, response.action>> \notin TransitionTable)
               => response.code \in ErrorCodes
          /\ \A r \in Requests : req[r].pc # "idle" => req[r].obj.status \in Status)
    /\ [][/\ response'.code \in ErrorCodes
               => campaigns' = campaigns /\ approval_steps' = approval_steps
          /\ \A c \in CampaignIds :
               (Exists(c) /\ campaigns'[c].status # campaigns[c].status)
               => \E a \in Actions : /\ <<campaigns[c].status, a>> \in TransitionTable
                                     /\ campaigns'[c].status = TableTarget(a)]_vars

\* C1 witness: a 400 for a pair outside the table, e.g. submit on pending_review
C1_Witness ==
    /\ response.code = 400
    /\ response.was \in Status
    /\ <<response.was, response.action>> \notin TransitionTable
    /\ campaigns[response.campaign].status = response.was

C2_Decision(a) ==
    CASE a = "submit"   -> "submitted"
      [] a = "approve"  -> "approved"
      [] a = "reject"   -> "rejected"
      [] a = "schedule" -> "approved"
      [] a = "revise"   -> "requested_changes"

\* C2: each successful workflow endpoint call appends exactly one approval step for
\* its campaign, with previous_status the status before the call, new_status the
\* status after it, and the decision of its action; steps appear in no other way.
C2_OneStepPerAction ==
    [][/\ response'.code = 200 =>
            /\ Len(approval_steps') = Len(approval_steps) + 1
            /\ SubSeq(approval_steps', 1, Len(approval_steps)) = approval_steps
            /\ LET s == approval_steps'[Len(approval_steps')]
                   c == response'.campaign
               IN  /\ s.campaign = c
                   /\ s.previous_status = campaigns[c].status
                   /\ s.new_status = campaigns'[c].status
                   /\ <<s.previous_status, response'.action>> \in TransitionTable
                   /\ s.new_status = TableTarget(response'.action)
                   /\ s.decision = C2_Decision(response'.action)
       /\ approval_steps' # approval_steps => response'.code = 200]_vars

\* C2 witness: revise from draft answered 200, its step recording draft -> draft
C2_Witness ==
    /\ response.code = 200
    /\ response.action = "revise"
    /\ response.was = "draft"
    /\ Len(approval_steps) > 0
    /\ LastStep.previous_status = "draft"
    /\ LastStep.new_status = "draft"
    /\ LastStep.decision = "requested_changes"

\* C3: every successful status transition of a campaign, on every path (endpoints,
\* sweeps, admin bulk actions), writes exactly one approval step of that campaign.
C3_OneStepPerTransition ==
    [][\A c \in CampaignIds :
          (Exists(c) /\ campaigns'[c].status # campaigns[c].status)
          => Len(SelectSeq(approval_steps', LAMBDA s : s.campaign = c)) = Len(StepsOf(c)) + 1]_vars

\* C4: a workflow endpoint makes its status write and its approval step visible
\* together: the save inside the transaction shows nothing, the commit shows both,
\* and when the step cannot be written neither is persisted.
C4_AtomicTransition ==
    [][/\ \A r \in Requests :
            /\ (req[r].pc = "atomic" /\ req'[r].pc = "saved")
                 => campaigns' = campaigns /\ approval_steps' = approval_steps
            /\ (req[r].pc = "saved" /\ req'[r].pc = "idle")
                 => \/ /\ response'.code = 200
                       /\ campaigns'[req[r].campaign].status = req[r].obj.status
                       /\ Len(approval_steps') = Len(approval_steps) + 1
                    \/ /\ response'.code = 500
                       /\ campaigns' = campaigns
                       /\ approval_steps' = approval_steps
            /\ (req'[r] # req[r] /\ campaigns' # campaigns) => approval_steps' # approval_steps
       /\ approval_steps' # approval_steps
            => LET s == approval_steps'[Len(approval_steps')]
               IN  campaigns'[s.campaign].status = s.new_status]_vars

\* C4 witness: the step of an approve could not be written; the campaign is still
\* pending_review and only the submit step exists
C4_Witness ==
    /\ response.code = 500
    /\ response.action = "approve"
    /\ response.was = "pending_review"
    /\ campaigns[response.campaign].status = "pending_review"
    /\ Len(approval_steps) = 1

\* C5: schedule on an approved campaign is refused, with nothing changed, when
\* scheduled_start or scheduled_end is null; it goes ahead only with both set, and
\* then leaves the campaign scheduled.
C5_ScheduleNeedsDates ==
    [][/\ \A r \in Requests :
            (req[r].pc = "idle" /\ req'[r].pc = "atomic" /\ req'[r].action = "schedule")
            => /\ campaigns[req'[r].campaign].status = "approved"
               /\ campaigns[req'[r].campaign].scheduled_start # NoTime
               /\ campaigns[req'[r].campaign].scheduled_end # NoTime
       /\ (response'.code = 400 /\ response'.action = "schedule" /\ response'.was = "approved")
            => /\ \/ campaigns[response'.campaign].scheduled_start = NoTime
                  \/ campaigns[response'.campaign].scheduled_end = NoTime
               /\ campaigns' = campaigns
               /\ approval_steps' = approval_steps
       /\ (response'.code = 200 /\ response'.action = "schedule")
            => /\ campaigns'[response'.campaign].status = "scheduled"
               /\ campaigns'[response'.campaign].scheduled_start # NoTime
               /\ campaigns'[response'.campaign].scheduled_end # NoTime]_vars

\* C5 witness: schedule refused on an approved campaign that has a start but no end
C5_Witness ==
    /\ response.code = 400
    /\ response.action = "schedule"
    /\ response.was = "approved"
    /\ campaigns[response.campaign].status = "approved"
    /\ campaigns[response.campaign].scheduled_start # NoTime
    /\ campaigns[response.campaign].scheduled_end = NoTime

Blank(s) == \A i \in 1..Len(s) : s[i] = " "

\* t is s without its leading and trailing spaces
IsTrimOf(t, s) ==
    \E i, j \in 0..Len(s) :
        /\ i + j <= Len(s)
        /\ t = SubSeq(s, i + 1, Len(s) - j)
        /\ \A k \in 1..i : s[k] = " "
        /\ \A k \in (Len(s) - j + 1)..Len(s) : s[k] = " "
        /\ t # << >> => (t[1] # " " /\ t[Len(t)] # " ")

\* the comments the amended claim has reject refuse
C6_Unusable(data) ==
    \/ ~data.has_comments
    \/ Blank(data.comments)
    \/ HasNullChar(data.comments)

\* C6 (as amended): reject on a pending_review campaign is refused, with nothing
\* changed, when comments are missing, empty, whitespace-only or contain a null
\* character; otherwise it sets the status to rejected and its step records the
\* comment with leading and trailing whitespace removed.
C6_RejectRecordsTrimmedComment ==
    [][/\ \A r \in Requests :
            (req[r].pc = "idle" /\ req'[r].pc = "atomic" /\ req'[r].action = "reject")
            => /\ campaigns[req'[r].campaign].status = "pending_review"
               /\ ~C6_Unusable(req'[r].data)
       /\ (response'.code = 400 /\ response'.action = "reject"
             /\ response'.was = "pending_review")
            => /\ C6_Unusable(response'.data)
               /\ campaigns' = campaigns
               /\ approval_steps' = approval_steps
       /\ (response'.code = 200 /\ response'.action = "reject")
            => /\ campaigns'[response'.campaign].status = "rejected"
               /\ Len(approval_steps') = Len(approval_steps) + 1
               /\ approval_steps'[Len(approval_steps')].decision = "rejected"
               /\ IsTrimOf(approval_steps'[Len(approval_steps')].comments,
                           response'.data.comments)]_vars

\* C6 witness: a reject went through whose recorded comment differs from the one sent
C6_Witness ==
    /\ response.code = 200
    /\ response.action = "reject"
    /\ campaigns[response.campaign].status = "rejected"
    /\ Len(approval_steps) > 0
    /\ LastStep.comments # response.data.comments
    /\ LastStep.comments # << >>

\* C6 as first stated: reject on a pending_review campaign is refused, with nothing
\* changed, exactly when comments are missing, empty or whitespace-only; with any
\* other comment it sets the status to rejected and its step records the literal
\* comment supplied.
C6_RejectRecordsLiteralComment ==
    [][/\ (response'.code = 400 /\ response'.action = "reject"
             /\ response'.was = "pending_review")
            => /\ ~response'.data.has_comments \/ Blank(response'.data.comments)
               /\ campaigns' = campaigns
               /\ approval_steps' = approval_steps
       /\ (response'.code = 200 /\ response'.action = "reject")
            => /\ campaigns'[response'.campaign].status = "rejected"
               /\ Len(approval_steps') = Len(approval_steps) + 1
               /\ approval_steps'[Len(approval_steps')].comments
                     = response'.data.comments]_vars

\* C7: approve and reject are refused with 403 for a viewer or a location_manager,
\* and pass authorization for an admin and for a brand_manager who has access to
\* the brand of the pending_review campaign.
C7_ElevatedRolesAuthorized ==
    (response.code # 0 /\ response.action \in {"approve", "reject"})
    => /\ Role(response.user) \in {"viewer", "location_manager"} => response.code = 403
       /\ (/\ \/ Role(response.user) = "admin"
              \/ /\ Role(response.user) = "brand_manager"
                 /\ LocationBrand(response.campaign) \in UserBrands(response.user)
           /\ response.code \in ErrorCodes
           /\ campaigns[response.campaign].status = "pending_review")
          => response.code # 403

\* C8: a campaign is created in draft, and a campaign that is active has been
\* pending_review, then approved, then scheduled: no stage is skipped, and
\* activate on an approved campaign is not allowed.
C8_NoStageSkipped ==
    /\ [](/\ \A c \in CampaignIds : campaigns[c].status = "active" => stage[c] = 3
          /\ ApplyTransition("approved", "activate") = "TransitionNotAllowed")
    /\ [][\A c \in CampaignIds :
             (~Exists(c) /\ campaigns'[c].status # "absent") => campaigns'[c].status = "draft"]_vars

\* C8 witness: an active campaign that went through the three stages
C8_Witness ==
    \E c \in CampaignIds : campaigns[c].status = "active" /\ stage[c] = 3

\* the campaigns a sweep of this kind must pick at the current instant
C9_Eligible(kind) ==
    IF kind = "activate"
    THEN {c \in CampaignIds : campaigns[c].status = "scheduled"
                              /\ campaigns[c].scheduled_start \in 1..now}
    ELSE {c \in CampaignIds : campaigns[c].status = "active"
                              /\ campaigns[c].scheduled_end \in 1..now}

C9_Target(kind) == IF kind = "activate" THEN "active" ELSE "completed"

PreconditionError == {"not_active", "no_html", "ValueError"}

\* C11: a batch send for a campaign that is not active, or whose generated HTML
\* is empty, fails with a precondition error before any send attempt: no message
\* reaches the transport and no EmailRecipient is changed
C11_BatchPreconditions ==
    (/\ mail.kind \in {"batch", "sent"}
     /\ Exists(mail.campaign)
     /\ mail.status # "active" \/ mail.html = "")
    => /\ mail.outcome \in PreconditionError
       /\ recipients = mail.before
       /\ outbox = mail.outbox_before

\* a batch send over an active campaign with generated HTML has returned
BatchReturned ==
    /\ mail.kind = "sent"
    /\ mail.outcome = "stats"
    /\ mail.status = "active"
    /\ mail.html # ""

RecipientById(id) == recipients[RowOf(id)]

SelectedIds == {mail.selected[i] : i \in 1..Len(mail.selected)}

\* the statistics of a batch over n recipients of which the transport raised
\* for k, and the status of each recipient afterwards
C12_Outcome ==
    /\ mail.total = Len(mail.selected)
    /\ mail.failed = Cardinality(mail.raised)
    /\ mail.sent = Len(mail.selected) - Cardinality(mail.raised)
    /\ \A id \in SelectedIds :
          IF id \in mail.raised
          THEN /\ RecipientById(id).status = "failed"
               /\ RecipientById(id).error_message <= ErrorMessageLimit
          ELSE /\ RecipientById(id).status = "sent"
               /\ RecipientById(id).sent_at # NoTime

\* C12 (amended): a batch send over n recipients of an active campaign with
\* HTML, where the transport raises for exactly k of them, never aborts: every
\* recipient is counted while the loop runs, and it returns total = n,
\* failed = k, sent = n - k; the recipients the transport raised for have status
\* failed and an error message of at most 500 characters (possibly empty), the
\* others have status sent with sent_at set
C12_BatchSurvivesFailures ==
    /\ (mail.kind = "batch" /\ mail.html # "")
          => /\ mail.total + Len(mail.todo) = Len(mail.selected)
             /\ mail.total = mail.sent + mail.failed
    /\ BatchReturned => C12_Outcome

\* two recipients, the transport raised for one of them and took the other
C12_Witness ==
    /\ BatchReturned
    /\ Len(mail.selected) = 2
    /\ Cardinality(mail.raised) = 1
    /\ Len(outbox) = 1

\* C12 as stated: the same, and the error message of each failed recipient is
\* non-empty
C12_FailedHaveNonEmptyMessage ==
    BatchReturned =>
        /\ C12_Outcome
        /\ \A id \in mail.raised : RecipientById(id).error_message > 0

\* the addresses of the items of the last add_recipients call, trimmed and in
\* lower case
C13_Address(i) == Lower(Strip(mail.data[i].email))

C13_Items == {i \in 1..Len(mail.data) : C13_Address(i) # << >>}

\* the addresses the campaign had before the call, in lower case
C13_Before == {Lower(mail.before[i].email) :
                  i \in {j \in 1..Len(mail.before) : mail.before[j].campaign = mail.campaign}}

\* the items whose creation does not raise
C13_Good == {i \in C13_Items : mail.data[i].name <= NameMaxLength}

\* the items that make a record: the first creatable occurrence of an address
\* the campaign did not have
C13_Creating ==
    {i \in C13_Good : /\ C13_Address(i) \notin C13_Before
                      /\ \A j \in C13_Good : C13_Address(j) = C13_Address(i) => i <= j}

\* the items whose address the campaign already has when their turn comes
C13_Known ==
    {i \in C13_Items : \/ C13_Address(i) \in C13_Before
                       \/ \E j \in C13_Creating : j < i /\ C13_Address(j) = C13_Address(i)}

\* the items whose address is in the campaign before the call or earlier in
\* the call
C13_Repeating ==
    {i \in C13_Items : \/ C13_Address(i) \in C13_Before
                       \/ \E j \in C13_Items : j < i /\ C13_Address(j) = C13_Address(i)}

C13_NoDuplicates ==
    \A i, j \in 1..Len(recipients) :
        (i # j /\ recipients[i].campaign = recipients[j].campaign)
            => Lower(recipients[i].email) # Lower(recipients[j].email)

\* the rows the last call appended
C13_NewRows == SubSeq(recipients, Len(mail.before) + 1, Len(recipients))

\* C13 (amended): after any sequence of add_recipients calls no two recipients
\* of a campaign have addresses equal ignoring case; an input address the
\* campaign already has (ignoring case), from before the call or created
\* earlier in it, creates no record and is counted in skipped; each new record
\* is counted in created; a non-blank address whose creation raises is counted
\* in neither, it is reported in errors
C13_AddRecipientsDeduplicates ==
    /\ C13_NoDuplicates
    /\ mail.kind = "added" =>
          /\ SubSeq(recipients, 1, Len(mail.before)) = mail.before
          /\ mail.created = Len(C13_NewRows)
          /\ {C13_NewRows[i].email : i \in 1..Len(C13_NewRows)} = {C13_Address(i) : i \in C13_Creating}
          /\ mail.created = Cardinality(C13_Creating)
          /\ mail.skipped = Cardinality(C13_Known)
          /\ Len(mail.errors) = Cardinality(C13_Items \ (C13_Creating \cup C13_Known))

\* a call that met an address the campaign already had in another case and
\* created a record for a new one
C13_Witness ==
    /\ mail.kind = "added"
    /\ \E i \in C13_Items : /\ C13_Address(i) \in C13_Before
                            /\ mail.data[i].email # C13_Address(i)
    /\ mail.created = 1
    /\ mail.skipped = 1

\* C13 as stated: no duplicates ignoring case; each input address that exists
\* already or repeats earlier in the same call creates no record and is counted
\* in skipped; each new record is counted in created
C13_RepeatsAreSkipped ==
    /\ C13_NoDuplicates
    /\ mail.kind = "added" =>
          /\ mail.created = Len(C13_NewRows)
          /\ C13_Repeating \cap C13_Creating = {}
          /\ mail.skipped >= Cardinality(C13_Repeating)

\* ------------------------------------------------------------------ claims on the content generator
C14_Configured == gen.in.openai_api_key # ""

\* the template renders, strictly or leniently
C14_Renders ==
    \/ render_template(gen.in.template, gen.in.context).raised = "none"
    \/ render_template_safe(gen.in.template, gen.in.context).raised = "none"

\* the content of a result that came from the template
C14_TemplateDerived(c) ==
    \/ Ok(c) = render_template(gen.in.template, gen.in.context)
    \/ Ok(c) = render_template_safe(gen.in.template, gen.in.context)

C14_Reason ==
    IF ~gen.in.use_ai THEN "None"
    ELSE IF ~C14_Configured THEN "AI not configured"
    ELSE "AI generation failed"

\* the result of generate_content by the case it is in
C14_Result ==
    IF gen.in.use_ai /\ C14_Configured /\ gen.in.llm = "content"
    THEN /\ gen.result.raised = "none"
         /\ gen.result.value.used_ai
         /\ gen.result.value.fallback_reason = "None"
         /\ gen.result.value.content.text = "generated"
    ELSE IF C14_Renders
    THEN /\ gen.result.raised = "none"
         /\ ~gen.result.value.used_ai
         /\ gen.result.value.fallback_reason = C14_Reason
         /\ C14_TemplateDerived(gen.result.value.content)
    ELSE gen.result.raised # "none"

\* C14 (amended): generate_content invokes the AI capability if and only if
\* use_ai is true and the capability is configured (never with use_ai false);
\* when that invocation succeeds the result has used_ai = true and no fallback
\* reason; otherwise, if the template renders, the result is template-derived
\* with used_ai = false and fallback_reason "AI generation failed",
\* "AI not configured" or none, and if the template does not render
\* generate_content raises the rendering error
C14_GenerateContent ==
    gen.fn = "generate_content" =>
        /\ gen.result.ai_called <=> (gen.in.use_ai /\ C14_Configured)
        /\ C14_Result

\* the invocation raised and the template took over
C14_Witness ==
    /\ gen.fn = "generate_content"
    /\ gen.result.ai_called
    /\ gen.result.raised = "none"
    /\ gen.in.llm = "raises"
    /\ ~gen.result.value.used_ai
    /\ gen.result.value.fallback_reason = "AI generation failed"
    /\ gen.result.value.content = <<"text", "value">>

\* C14 as stated: the AI capability is invoked iff use_ai and configured, and
\* the result is the AI content with used_ai = true, or else a template-derived
\* content with used_ai = false and the fallback reason of its case
C14_AlwaysAResult ==
    gen.fn = "generate_content" =>
        /\ gen.result.ai_called <=> (gen.in.use_ai /\ C14_Configured)
        /\ gen.result.raised = "none"
        /\ gen.result.value.used_ai \/ gen.result.value.fallback_reason = C14_Reason

C15_Valid == \A i \in 1..Len(gen.in.template) : gen.in.template[i].use # "unclosed"

\* the parts of the template that refer to a variable the context lacks
C15_Missing ==
    {i \in 1..Len(gen.in.template) :
        /\ gen.in.template[i].var \in TemplateVars
        /\ gen.in.template[i].var \notin gen.in.context}

\* C15: for a syntactically valid template that refers to a variable absent
\* from the context, render_template raises an error, while render_template_safe
\* never raises and puts the empty string in the place of the missing variable
C15_StrictRaisesLenientSubstitutes ==
    (C15_Valid /\ C15_Missing # {}) =>
        /\ gen.fn = "render_template" => gen.result.raised # "none"
        /\ gen.fn = "render_template_safe" =>
              /\ gen.result.raised = "none"
              /\ \A i \in C15_Missing : gen.result.value[i] = ""

C17_RagErrors == {"embedding_raises", "search_raises", "construction_raises"}

\* C17: any error raised while retrieving RAG examples (query embedding,
\* similarity search, construction of the search service) is swallowed:
\* get_rag_context returns an empty list, _get_rag_context returns an empty
\* context and instruction, and generate_with_ai goes on without examples: it
\* fails only if the model itself does
C17_RagErrorsAreSwallowed ==
    gen.in.rag \in C17_RagErrors =>
        /\ (gen.fn = "get_rag_context" /\ gen.in.rag # "construction_raises")
              => gen.result = Ok(<< >>)
        /\ gen.fn = "_get_rag_context" => gen.result = Ok(<<"", "">>)
        /\ (gen.fn = "generate_with_ai" /\ gen.in.openai_api_key # "") =>
              IF gen.in.llm = "content"
              THEN /\ gen.result.raised = "none"
                   /\ gen.result.value.text = "generated"
                   /\ gen.result.value.rag_context = ""
              ELSE gen.result.raised = "Exception"

\* the similarity query failed and the model still produced content
C17_Witness ==
    /\ gen.fn = "generate_with_ai"
    /\ gen.in.use_rag
    /\ gen.in.openai_api_key # ""
    /\ gen.in.rag = "search_raises"
    /\ gen.result.raised = "none"
    /\ gen.result.value.rag_context = ""

\* ------------------------------------------------------------------ claims on the similarity search
\* the threshold a query asks for, the default when it names none
C18_Threshold ==
    IF search.query.similarity_threshold = NoThreshold THEN DEFAULT_SIMILARITY_THRESHOLD
    ELSE search.query.similarity_threshold

C18_Returned == {search.results[i].campaign_id : i \in 1..Len(search.results)}

C19_Terminal(t) == task[t].state \in {"SUCCESS", "FAILURE"}

\* retries stay within max_retries; a task that failed for good ran once and
\* was retried max_retries times; a task whose campaign is missing ended on its
\* only run with the error result
C19_Bounded ==
    \A t \in TaskIds :
        /\ task[t].state # "none" =>
              /\ task[t].retries <= max_retries
              /\ task[t].executions <= max_retries + 1
        /\ task[t].state = "FAILURE" =>
              /\ task[t].retries = max_retries
              /\ task[t].executions = max_retries + 1
              /\ task[t].result = "exception"
        /\ (task[t].state # "none" /\ ~Exists(task[t].campaign)) =>
              /\ task[t].retries = 0
              /\ task[t].executions <= 1
              /\ task[t].executions = 1 =>
                    (task[t].state = "SUCCESS" /\ task[t].result = "error: Campaign not found")

\* C19: every execution of generate_campaign_content reaches a terminal
\* outcome: an exception triggers a retry at most 3 times, after which the task
\* ends permanently failed; a missing campaign ends the task at once with an
\* error result and without any retry
C19_TaskTerminates ==
    /\ []C19_Bounded
    /\ \A t \in TaskIds : (task[t].state # "none") ~> C19_Terminal(t)

\* a task that failed for good after its retries, and one that found no campaign
C19_Witness ==
    /\ task["t1"].state = "FAILURE"
    /\ task["t1"].retries = max_retries
    /\ task["t2"].state = "SUCCESS"
    /\ task["t2"].result = "error: Campaign not found"

\* ------------------------------------------------------------------ claims on update and destroy
\* C20: update (customizations, location, template, scheduled_start,
\* scheduled_end) and deletion of a campaign are accepted only while its status
\* is draft; on a campaign in any other status they are rejected and leave the
\* campaign unchanged; no update ever changes status
C20_EditsOnlyInDraft ==
    [][\A c \in CampaignIds :
          /\ (Exists(c) /\ campaigns[c].status # "draft") => campaigns'[c] = campaigns[c]
          /\ (Exists(c) /\ campaigns'[c].status # "absent")
                => campaigns'[c].status = campaigns[c].status]_vars

\* ------------------------------------------------------------------ C21
\* the brands a create or update request would leave on the campaign differ
C21_WouldDiffer(c, attrs) ==
    BrandOf(Resulting(attrs, links[c]).location) # BrandOf(Resulting(attrs, links[c]).template)

C21_SameBrand ==
    \A c \in CampaignIds :
        Exists(c) => BrandOf(links[c].location) = BrandOf(links[c].template)

C21_Step ==
    response'.action \in {"create", "update"} =>
        /\ C21_WouldDiffer(response'.campaign, response'.data) =>
              response'.code = 400
        /\ response'.code = 400 => UNCHANGED <<campaigns, links>>

\* C21: a campaign create or update, a partial update of the location alone or the
\* template alone included, is answered 400 with nothing written whenever the
\* resulting location and template are of different brands; so every campaign's
\* location and template are of one brand after any sequence of creates and updates
C21_CreateUpdateKeepOneBrand == []C21_SameBrand /\ [][C21_Step]_vars

\* a partial update naming only a location of another brand was rejected
C21_Witness ==
    /\ response.action = "update" /\ response.code = 400
    /\ response.data.location # NoAttr /\ response.data.template = NoAttr
    /\ BrandOf(response.data.location) # BrandOf(links[response.campaign].template)
    /\ Exists(response.campaign)

\* ------------------------------------------------------------------ C22
\* the steps that are older than the retention horizon and belong to a completed campaign
C22_Expired(st) ==
    campaigns[st.campaign].status = "completed" /\ st.created_at < now - RetentionDays

\* the step table grew by one row at its end
C22_Appended ==
    /\ Len(approval_steps') = Len(approval_steps) + 1
    /\ SubSeq(approval_steps', 1, Len(approval_steps)) = approval_steps

\* the step table lost exactly its expired rows and no campaign changed
C22_Purged ==
    /\ approval_steps' = SelectSeq(approval_steps, LAMBDA st : ~C22_Expired(st))
    /\ campaigns' = campaigns

\* C22: approval steps are append-only: the step table changes only by a new row at
\* its end or by the retention sweep, which deletes exactly the steps older than
\* 365 days of completed campaigns and leaves every campaign unchanged
C22_AppendOnlyButRetention ==
    [][approval_steps' # approval_steps => C22_Appended \/ C22_Purged]_vars

\* ------------------------------------------------------------------ C23
\* the persisted status of a campaign moves only along an edge of the transition table
C23_StatusAlongTable ==
    \A c \in CampaignIds :
        (Exists(c) /\ campaigns'[c].status # campaigns[c].status /\ campaigns'[c].status # "absent") =>
            \E a \in Actions :
                /\ <<campaigns[c].status, a>> \in TransitionTable
                /\ campaigns'[c].status = TableTarget(a)

\* a step that is written records the status persisted just before as previous_status
C23_StepFromPersisted ==
    Len(approval_steps') = Len(approval_steps) + 1 =>
        LET step == approval_steps'[Len(approval_steps')]
        IN  step.previous_status = campaigns[step.campaign].status

\* C23: of two workflow actions processed concurrently on one campaign at most one
\* succeeds: the persisted status never moves along a pair outside the transition
\* table, and no approval step is written whose previous_status differs from the
\* status persisted immediately before
C23_ConcurrentActionsSerialize ==
    [][C23_StatusAlongTable /\ C23_StepFromPersisted]_vars

\* ------------------------------------------------------------------ C24
\* a step that changes the persisted status of a campaign leaves its persisted
\* generated_content and content_embedding as they were
C24_TransitionKeepsContent ==
    \A c \in CampaignIds :
        campaigns'[c].status # campaigns[c].status =>
            /\ content'[c].generated_content = content[c].generated_content
            /\ content'[c].content_embedding = content[c].content_embedding

\* a step of the generation task leaves every persisted status as it was
C24_GenerationKeepsStatus ==
    task' # task => \A c \in CampaignIds : campaigns'[c].status = campaigns[c].status

\* C24: a status transition changes only the status under any interleaving: what
\* a content generation wrote to generated_content and content_embedding after the
\* transition loaded the campaign is still persisted after the transition's save,
\* and a generation write never changes the persisted status
C24_TransitionChangesOnlyStatus ==
    [][C24_TransitionKeepsContent /\ C24_GenerationKeepsStatus]_vars

\* ------------------------------------------------------------------ C25
\* the transport was handed at most one message per recipient of a campaign
C25_SentOnce ==
    \A i, j \in 1..Len(outbox) : outbox[i] = outbox[j] => i = j

\* the status of a recipient changes only when it was pending
C25_OnlyFromPending ==
    \A i \in 1..Len(recipients) :
        recipients'[i].status # recipients[i].status => recipients[i].status = "pending"

\* C25: no recipient is emailed more than once for a campaign and a recipient's
\* status moves only from pending to sent or from pending to failed, across any
\* sequence of send_campaign_emails executions and overlapping executions for
\* the same campaign
C25_EachRecipientEmailedOnce == []C25_SentOnce /\ [][C25_OnlyFromPending]_vars

\* ------------------------------------------------------------------ C26
\* a run applies and counts its transition on a campaign only while the persisted
\* status is the source of the transition, so once per campaign
C26_AppliedFromSource ==
    \A w \in SweepWorkers, c \in CampaignIds :
        (sweep[w].pc = "running" /\ sweep'[w].pc = "running" /\ c \in sweep'[w].saved \ sweep[w].saved) =>
            /\ <<campaigns[c].status, sweep[w].kind>> \in TransitionTable
            /\ campaigns'[c].status = TableTarget(sweep[w].kind)

\* a run that starts when nothing is due selects nothing, and the count a run
\* returns is the number of campaigns it transitioned
C26_CountsWhatItDid ==
    \A w \in SweepWorkers :
        (sweep[w].pc = "running" /\ sweep'[w].pc = "idle") =>
            /\ sweep[w].count = Cardinality(sweep[w].saved)
            /\ sweep[w].eligible = {} => sweep[w].count = 0

\* C26: each campaign is activated at most once, and completed at most once,
\* across any sequence or overlap of sweep runs: the transition is applied and
\* counted for a campaign at most once, and a run that follows a completed run
\* with nothing changed in between transitions nothing and returns 0
C26_ActivatedAtMostOnce == [][C26_AppliedFromSource /\ C26_CountsWhatItDid]_vars

\* ------------------------------------------------------------------ C27
\* consecutive steps of a campaign join: the later one starts from the status the
\* earlier one led to
C27_Chained(c) ==
    \A i \in 1..(Len(StepsOf(c)) - 1) :
        StepsOf(c)[i].new_status = StepsOf(c)[i + 1].previous_status

\* the pair of statuses a step records is an edge of the transition table
C27_Edge(st) ==
    \E a \in Actions :
        /\ <<st.previous_status, a>> \in TransitionTable
        /\ st.new_status = TableTarget(a)

\* C27: the approval steps of a campaign form a chain: of two consecutive steps
\* the earlier one's new_status is the later one's previous_status, and the pair
\* of every step is an edge of the transition table, after any sequence of API
\* actions, admin bulk actions and sweeps
C27_AuditTrailIsAChain ==
    \A c \in CampaignIds :
        /\ C27_Chained(c)
        /\ \A i \in 1..Len(StepsOf(c)) : C27_Edge(StepsOf(c)[i])

\* ------------------------------------------------------------------ C28
\* C28: a campaign whose status is scheduled or active has both scheduled_start
\* and scheduled_end set, whatever sequence of create, update, workflow actions
\* and sweeps led there
C28_ScheduledHasWindow ==
    \A c \in CampaignIds :
        campaigns[c].status \in {"scheduled", "active"} =>
            /\ campaigns[c].scheduled_start # NoTime
            /\ campaigns[c].scheduled_end # NoTime

\* ------------------------------------------------------------------ C29
\* a completed campaign keeps its status
C29_CompletedStays ==
    \A c \in CampaignIds :
        campaigns[c].status = "completed" => campaigns'[c].status = "completed"

\* C29: with the clock advancing and the sweeps running, every campaign that is
\* scheduled eventually becomes active and every campaign that is active
\* eventually becomes completed; once completed its status never changes again
C29_ScheduleRunsToCompletion ==
    /\ \A c \in CampaignIds : (campaigns[c].status = "scheduled") ~> (campaigns[c].status = "active")
    /\ \A c \in CampaignIds : (campaigns[c].status = "active") ~> (campaigns[c].status = "completed")
    /\ [][C29_CompletedStays]_vars

\* ------------------------------------------------------------------ C30
\* what generated_content holds is text, not the printed form of a result object
C30_IsText(s) == s \notin {ReprOf([used_ai |-> TRUE]), ReprOf([used_ai |-> FALSE])}

\* a run of the task that saved content ended in success, without a retry, and
\* what it saved is the generated text
C30_TaskSucceeds ==
    \A t \in TaskIds :
        (task'[t] # task[t] /\ Waiting(t) /\ content' # content) =>
            /\ task'[t].state = "SUCCESS"
            /\ task'[t].retries = task[t].retries
            /\ C30_IsText(content'[task[t].campaign].generated_content)

\* a synchronous request that saved content was answered without an error, and
\* what it saved is the generated text
C30_EndpointSucceeds ==
    (response'.action = "generate_content" /\ content' # content) =>
        /\ response'.code = 200
        /\ C30_IsText(content'[response'.campaign].generated_content)

\* C30: when generation succeeds for an existing campaign, the task and the
\* synchronous endpoint store the generated text itself in generated_content,
\* store the embedding when one was computed, and end in success, with no retry
\* and no error response
C30_GenerationStoresTextAndSucceeds ==
    [][C30_TaskSucceeds /\ C30_EndpointSucceeds]_vars

====
